---- MODULE Spec2Model ----
(***************************************************************************)
(* Model of the projection engine of startup-metrics                       *)
(* (src/streamlit_app.py): the revenue projection, the customer flow, the  *)
(* customer-total projection, the scenario cash projection, the scalar     *)
(* formulas and main, the evaluation of the page.                          *)
(*                                                                         *)
(* Numbers.  The Python code computes in ints and in binary floats.        *)
(* Where the code truncates a float with int() (the customers gained and   *)
(* lost in a month, the projected totals) the model computes the float     *)
(* itself: a binary64 number [s, m, e] with a 53-bit significand, every    *)
(* operation rounded to nearest, ties to even, so that the int is the int  *)
(* Python returns (70 % of 10 over 3 months is 30, not 31).  The power     *)
(* x ** month is pow() of the C library, which may miss the nearest float  *)
(* by one: where the power lies next to the middle of two floats a call    *)
(* takes either of them (FPow).  A float lies below 2 ^ 1024: a power out  *)
(* of that range raises OverflowError, and so does int() of a product that *)
(* is out of it; the call then returns nothing.  The values the code never *)
(* truncates (revenues, cash, ratios) are exact rationals [n, d] (d > 0,   *)
(* lowest terms; d = 0 for inf and nan); their inputs are drawn from       *)
(* grids on which every float operation of the code is exact or rounds to  *)
(* the exact value (revenue percentages that are multiples of 25, or 10    *)
(* on round revenues; scenario multipliers that are multiples of 1/4;      *)
(* expenses that are multiples of 2500, which 1.02 ** month keeps whole),  *)
(* so that the rational value is the value Python returns.  main is the    *)
(* exception: its scenarios are scaled by 1.2, 0.9, 1.1 and 0.8 and its    *)
(* blended churn is 4.4, none of them a binary float, so there the         *)
(* rational is the real number the float is the rounding of; every int of  *)
(* main (the customer flows, the lengths, the dates) is the int of the     *)
(* code.  Where a scenario scales revenue and expenses to the same number, *)
(* the two roundings decide whether its burn is positive, and its metrics  *)
(* are computed in floats.                                                 *)
(*                                                                         *)
(* Shape.  Every projector is a pure function: a Call action draws the     *)
(* arguments, runs the whole function and stores what it returns; main     *)
(* draws the values of the widgets and stores everything the page          *)
(* computes from them.  The cash chart reads the clock once for each of    *)
(* its labels, so midnight may fall between two readings.  A behaviour     *)
(* follows one process at a time: it makes a call, may repeat it with the  *)
(* same arguments or, for generate_runway_projection, follow it with a     *)
(* call with any arguments, and ends; Exit is the end of the process, with *)
(* which the store of st.cache_data is lost.  A call that raises ends the  *)
(* process too.                                                            *)
(*                                                                         *)
(* Databases.  MetricsDB (src/database_manager.py) and                     *)
(* setup_investor_database (src/VC_PE_ingester.py) have state machines of  *)
(* their own, SpecDB and SpecIngest, over the committed rows of their      *)
(* tables; a call is one step, from connect to return.                     *)
(***************************************************************************)
EXTENDS Integers, Sequences, FiniteSets

VARIABLES
    pc,      \* "idle": a process has started and has called nothing yet;
             \* "done": a call has returned;
             \* "again": a second call with the same arguments has returned;
             \* "next": a call that follows another has returned;
             \* "raised": a call has raised OverflowError
    op,      \* the function that was called
    args,    \* its arguments
    result,  \* what it returned
    cache,   \* what st.cache_data holds in the memory of the process: the
             \* entries of the arguments the process has called with
    earlier, \* what the first of two calls with the same arguments returned
    metrics_table, \* the rows of the table metrics of startup_metrics.db
    today,   \* the day of the clock, in days since 2026-01-01
    saved,   \* the snapshots handed to save_metrics so far, in order
    investors, \* the committed rows of the table investors of investors.db
    conn,    \* the connection of the last call of setup_investor_database:
             \* "none", "open" or "closed"
    locked   \* a closed connection still holds the write lock of the file

\* the state of the projection engine and the state of the database
appvars == <<pc, op, args, result, cache, earlier>>
dbvars == <<metrics_table, today, saved>>
ingestvars == <<investors, conn, locked>>
vars ==
    <<pc, op, args, result, cache, earlier, metrics_table, today, saved,
      investors, conn, locked>>

----------------------------------------------------------------------------
(* Bounds of the model *)

\* longest horizon of a revenue / customer projection
MaxMonths == 3
\* longest horizon of a scenario projection
MaxScenarioMonths == 2

----------------------------------------------------------------------------
(* Exact rational arithmetic standing for Python's float arithmetic *)

Abs(x) == IF x < 0 THEN -x ELSE x

RECURSIVE GCD(_, _)
GCD(a, b) == IF b = 0 THEN a ELSE GCD(b, a % b)

\* the rational n/d in lowest terms with a positive denominator (d # 0)
Rat(n, d) ==
    LET g == GCD(Abs(n), Abs(d))
        s == IF d < 0 THEN -1 ELSE 1
    IN  [n |-> s * (n \div g), d |-> s * (d \div g)]

FromInt(k) == [n |-> k, d |-> 1]

RMul(x, y) ==
    LET g1 == GCD(Abs(x.n), y.d)
        g2 == GCD(Abs(y.n), x.d)
    IN  IF x.n = 0 \/ y.n = 0
        THEN FromInt(0)
        ELSE [n |-> (x.n \div g1) * (y.n \div g2),
              d |-> (x.d \div g2) * (y.d \div g1)]

RAdd(x, y) ==
    LET g == GCD(x.d, y.d)
        l == (x.d \div g) * y.d
    IN  Rat(x.n * (l \div x.d) + y.n * (l \div y.d), l)

RNeg(x) == [n |-> -x.n, d |-> x.d]

RSub(x, y) == RAdd(x, RNeg(y))

\* x / k for an integer k # 0
RDivInt(x, k) == RMul(x, Rat(1, k))

RECURSIVE RPow(_, _)
RPow(x, m) == IF m = 0 THEN FromInt(1) ELSE RMul(x, RPow(x, m - 1))

RLess(x, y) == x.n * y.d < y.n * x.d

RLeq(x, y) == x.n * y.d <= y.n * x.d

\* Python's int(x): truncation toward zero
Trunc(x) == IF x.n >= 0 THEN x.n \div x.d ELSE -((-x.n) \div x.d)

\* Python's max(0, x)
Max0(x) == IF RLess(FromInt(0), x) THEN x ELSE FromInt(0)

\* Python's max(0, k) on ints
IntMax0(k) == IF k > 0 THEN k ELSE 0

----------------------------------------------------------------------------
(* Python's float arithmetic (IEEE 754 binary64, round to nearest, ties to *)
(* even) where a float is truncated by int().  A float is [s, m, e]: the   *)
(* value s * m * 2^e, s the sign, m the 53-bit significand (or 0) as a     *)
(* natural number in limbs of 15 bits, the lowest first.                   *)

LimbBits == 15
Limb == 2 ^ LimbBits
Significand == 53

RECURSIVE BTrim(_)
BTrim(a) ==
    IF a = <<>> \/ a[Len(a)] /= 0 THEN a ELSE BTrim(SubSeq(a, 1, Len(a) - 1))

RECURSIVE BFromInt(_)
BFromInt(k) == IF k = 0 THEN <<>> ELSE <<k % Limb>> \o BFromInt(k \div Limb)

RECURSIVE BToInt(_)
BToInt(a) == IF a = <<>> THEN 0 ELSE Head(a) + Limb * BToInt(Tail(a))

BHead(a) == IF a = <<>> THEN 0 ELSE Head(a)
BTail(a) == IF a = <<>> THEN <<>> ELSE Tail(a)

RECURSIVE BAddCarry(_, _, _)
BAddCarry(a, b, carry) ==
    IF a = <<>> /\ b = <<>>
    THEN IF carry = 0 THEN <<>> ELSE <<carry>>
    ELSE LET x == BHead(a) + BHead(b) + carry
         IN  <<x % Limb>> \o BAddCarry(BTail(a), BTail(b), x \div Limb)

BAdd(a, b) == BAddCarry(a, b, 0)

\* a - b - borrow for a >= b + borrow, before the leading zeros are cut
RECURSIVE BSubBorrow(_, _, _)
BSubBorrow(a, b, borrow) ==
    IF a = <<>> THEN <<>>
    ELSE LET x == Head(a) - BHead(b) - borrow
         IN  IF x < 0
             THEN <<x + Limb>> \o BSubBorrow(Tail(a), BTail(b), 1)
             ELSE <<x>> \o BSubBorrow(Tail(a), BTail(b), 0)

BSub(a, b) == BTrim(BSubBorrow(a, b, 0))

\* a < b, the limbs compared from the highest down
RECURSIVE BLessFrom(_, _, _)
BLessFrom(a, b, i) ==
    IF i = 0 THEN FALSE
    ELSE IF a[i] /= b[i] THEN a[i] < b[i]
    ELSE BLessFrom(a, b, i - 1)

BLess(a, b) ==
    IF Len(a) /= Len(b) THEN Len(a) < Len(b) ELSE BLessFrom(a, b, Len(a))

\* a * k + carry for 0 <= k < Limb, before the leading zeros are cut
RECURSIVE BMulSmallCarry(_, _, _)
BMulSmallCarry(a, k, carry) ==
    IF a = <<>>
    THEN IF carry = 0 THEN <<>> ELSE <<carry>>
    ELSE LET x == Head(a) * k + carry
         IN  <<x % Limb>> \o BMulSmallCarry(Tail(a), k, x \div Limb)

BMulSmall(a, k) == BTrim(BMulSmallCarry(a, k, 0))

\* a * Limb
BShiftLimb(a) == IF a = <<>> THEN <<>> ELSE <<0>> \o a

RECURSIVE BMul(_, _)
BMul(a, b) ==
    IF b = <<>> THEN <<>>
    ELSE BAdd(BMulSmall(a, Head(b)), BShiftLimb(BMul(a, Tail(b))))

\* quotient (leading zeros not cut) and remainder of a by 0 < k <= Limb
RECURSIVE BDivSmallRem(_, _)
BDivSmallRem(a, k) ==
    IF a = <<>> THEN [q |-> <<>>, r |-> 0]
    ELSE LET rest == BDivSmallRem(Tail(a), k)
             cur == rest.r * Limb + Head(a)
         IN  [q |-> <<cur \div k>> \o rest.q, r |-> cur % k]

BDivTrim(d) == [q |-> BTrim(d.q), r |-> d.r]

BDivSmall(a, k) == BDivTrim(BDivSmallRem(a, k))

RECURSIVE BShiftLimbs(_, _)
BShiftLimbs(a, n) == IF n = 0 THEN a ELSE BShiftLimbs(BShiftLimb(a), n - 1)

\* a * 2^n
BShl(a, n) ==
    BShiftLimbs(BMulSmall(a, 2 ^ (n % LimbBits)), n \div LimbBits)

\* a \div 2^n
BShr(a, n) ==
    IF n \div LimbBits >= Len(a) THEN <<>>
    ELSE BDivSmall(SubSeq(a, n \div LimbBits + 1, Len(a)),
                   2 ^ (n % LimbBits)).q

RECURSIVE IntBitLen(_)
IntBitLen(k) == IF k = 0 THEN 0 ELSE 1 + IntBitLen(k \div 2)

BBitLen(a) ==
    IF a = <<>> THEN 0 ELSE LimbBits * (Len(a) - 1) + IntBitLen(a[Len(a)])

BOdd(a) == a /= <<>> /\ a[1] % 2 = 1

BSquare(a) == BMul(a, a)

\* a ^ n, by squaring
RECURSIVE BPow(_, _)
BPow(a, n) ==
    IF n = 0 THEN <<1>>
    ELSE IF n % 2 = 1 THEN BMul(a, BPow(a, n - 1))
    ELSE BSquare(BPow(a, n \div 2))

FloatZero == [s |-> 1, m |-> <<>>, e |-> 0]

\* the float s * q * 2^E of a rounded significand q, which the rounding may
\* have carried to 2^53
FRoundCarry(s, q, E) ==
    IF BBitLen(q) > Significand
    THEN [s |-> s, m |-> BShr(q, 1), e |-> E + 1]
    ELSE [s |-> s, m |-> q, e |-> E]

\* the significand q with the bit below it, guard, and whether anything
\* follows that bit: up when the rest is more than half, or half and q odd
FRoundGuard(s, q, guard, inexact, E) ==
    FRoundCarry(s,
                IF guard /\ (inexact \/ BOdd(q)) THEN BAdd(q, <<1>>) ELSE q,
                E)

\* M of r bits too many; q2 is M without its last r - 1 bits
FRoundBits(s, M, E, sticky, r, q2) ==
    FRoundGuard(s, BShr(q2, 1), BOdd(q2),
                sticky \/ BShl(q2, r - 1) /= M, E + r)

\* M of L bits
FRoundLen(s, M, E, sticky, L) ==
    IF L <= Significand
    THEN [s |-> s, m |-> BShl(M, Significand - L),
          e |-> E - (Significand - L)]
    ELSE FRoundBits(s, M, E, sticky, L - Significand,
                    BShr(M, L - Significand - 1))

\* the float nearest to s * M * 2^E, ties to even; sticky: the value is a
\* little more than M * 2^E (the remainder of a division)
FRound(s, M, E, sticky) ==
    IF M = <<>> THEN FloatZero ELSE FRoundLen(s, M, E, sticky, BBitLen(M))

\* float(k) of an int
FFromInt(k) ==
    FRound(IF k < 0 THEN -1 ELSE 1, BFromInt(IF k < 0 THEN -k ELSE k), 0,
           FALSE)

\* x / k for an int 0 < k < Limb
FDivQuotient(x, d) == FRound(x.s, d.q, x.e - 2 * LimbBits, d.r /= 0)

FDivInt(x, k) == FDivQuotient(x, BDivSmall(BShl(x.m, 2 * LimbBits), k))

\* x * y
FTimes(x, y) == FRound(x.s * y.s, BMul(x.m, y.m), x.e + y.e, FALSE)

\* the sum of sx * X * 2^E and sy * Y * 2^E
FPlusAligned(sx, X, sy, Y, E) ==
    IF sx = sy THEN FRound(sx, BAdd(X, Y), E, FALSE)
    ELSE IF BLess(X, Y) THEN FRound(sy, BSub(Y, X), E, FALSE)
    ELSE FRound(sx, BSub(X, Y), E, FALSE)

FPlusFrom(x, y, E) ==
    FPlusAligned(x.s, BShl(x.m, x.e - E), y.s, BShl(y.m, y.e - E), E)

\* x + y
FPlus(x, y) ==
    IF x.m = <<>> THEN y
    ELSE IF y.m = <<>> THEN x
    ELSE FPlusFrom(x, y, IF x.e < y.e THEN x.e ELSE y.e)

RECURSIVE IntTrailingZeros(_)
IntTrailingZeros(k) == IF k % 2 = 1 THEN 0 ELSE 1 + IntTrailingZeros(k \div 2)

\* the number of the zero bits at the low end of a
RECURSIVE BTrailingZeros(_)
BTrailingZeros(a) ==
    IF a = <<>> THEN 0
    ELSE IF Head(a) = 0 THEN LimbBits + BTrailingZeros(Tail(a))
    ELSE IntTrailingZeros(Head(a))

\* the float x written with an odd significand (or 0), whose powers are
\* the shortest
FOdd(x) ==
    [s |-> x.s, m |-> BShr(x.m, BTrailingZeros(x.m)),
     e |-> x.e + BTrailingZeros(x.m)]

\* the float nearest to s * o.m ** n * 2 ^ (o.e * n)
FPowerOdd(s, o, n) == FRound(s, BPow(o.m, n), o.e * n, FALSE)

\* the float nearest to x ** n, for an int n >= 0
FPower(x, n) == FPowerOdd(IF n % 2 = 0 THEN 1 ELSE x.s, FOdd(x), n)

\* what M has below its r-th bit
FPowerRest(M, r) == BSub(M, BShl(BShr(M, r), r))

\* the rest lies within 0.04 of the half of 2^r
FPowerNearHalf(rest100, r) ==
    ~BLess(rest100, BShl(<<46>>, r)) /\ ~BLess(BShl(<<54>>, r), rest100)

FPowerHardBits(M, r) ==
    r > 0 /\ FPowerNearHalf(BMulSmall(FPowerRest(M, r), 100), r)

\* float ** int is pow() of the C library, which is not correctly rounded:
\* glibc keeps its error under 0.54 ulp.  The power is hard when it lies
\* within 0.04 ulp of the middle of two floats: pow() may then return
\* either of the two
FPowerHard(x, n) ==
    FPowerHardBits(BPow(FOdd(x).m, n),
                   BBitLen(BPow(FOdd(x).m, n)) - Significand)

\* the floats below and above s * M * 2^E in magnitude
FPowerDown(s, M, E, r) == [s |-> s, m |-> BShr(M, r), e |-> E + r]
FPowerUp(s, M, E, r) == FRoundCarry(s, BAdd(BShr(M, r), <<1>>), E + r)

FPowerOtherOf(nearest, down, up) == IF nearest = down THEN up ELSE down

FPowerOtherBits(x, n, s, M, r) ==
    FPowerOtherOf(FPower(x, n), FPowerDown(s, M, FOdd(x).e * n, r),
                  FPowerUp(s, M, FOdd(x).e * n, r))

\* the neighbour of the nearest float on the other side of a hard power
FPowerOther(x, n) ==
    FPowerOtherBits(x, n, IF n % 2 = 0 THEN 1 ELSE x.s, BPow(FOdd(x).m, n),
                    BBitLen(BPow(FOdd(x).m, n)) - Significand)

\* x ** n as the build returns it where the power is in the range of a
\* float (the callers test FPowOverflows first): the nearest float, or,
\* where the power is hard and the library errs (away), the float on its
\* other side
FPow(x, n, away) ==
    IF away /\ FPowerHard(x, n) THEN FPowerOther(x, n) ELSE FPower(x, n)

\* 1 + exponential_growth / 100, the base of the exponential models
GrowthBase(exponential_growth) ==
    FPlus(FFromInt(1), FDivInt(FFromInt(exponential_growth), 100))

\* the hard powers among the growths and the exponents of a call, as
\* <<exponential_growth, month>>
HardPowers(growths, exponents) ==
    { p \in growths \X exponents : FPowerHard(GrowthBase(p[1]), p[2]) }

\* a float is finite below 2 ^ MaxExponent
MaxExponent == 1024

\* x has not overflowed to inf; the floats of the model have every exponent
FFinite(x) == x.m = <<>> \/ BBitLen(x.m) + x.e <= MaxExponent

\* x ** n is out of range: float ** int raises OverflowError
FPowOverflows(x, n) == ~FFinite(FPower(x, n))

\* |1 + growth / 100| < 2 ^ GrowthBits(growth)
GrowthBits(growth) ==
    IntBitLen((IF growth < 0 THEN -growth ELSE growth) \div 100 + 2)

\* (1 + growth / 100) ** n, or its product with an int of the model (of at
\* most 2 * LimbBits + 1 bits), may leave the range of a float: below,
\* neither does
PowerNearRange(growth, n) ==
    GrowthBits(growth) * n + 2 * LimbBits + 1 >= MaxExponent

\* float(r) of a rational whose denominator is below Limb
FFromRat(r) == FDivInt(FFromInt(r.n), r.d)

\* x - y
FMinus(x, y) == FPlus(x, [s |-> -y.s, m |-> y.m, e |-> y.e])

\* x / (k * 2 ^ E) for 0 < k < Limb
FDivScaled(x, k, E) ==
    [s |-> FDivInt(x, k).s, m |-> FDivInt(x, k).m, e |-> FDivInt(x, k).e - E]

\* x / y for a float y > 0 whose odd significand is below Limb
FDivShort(x, y) == FDivScaled(x, BToInt(FOdd(y).m), FOdd(y).e)

\* what a call that raises OverflowError leaves instead of a value
OverflowError == [raised |-> "OverflowError"]

\* int(x)
FTrunc(x) ==
    IF x.e >= 0 THEN x.s * BToInt(BShl(x.m, x.e))
    ELSE x.s * BToInt(BShr(x.m, -x.e))

----------------------------------------------------------------------------
(* class GrowthModel *)

FIXED == "Fixed"
LINEAR == "Linear"
EXPONENTIAL == "Exponential"

GrowthModel == {FIXED, LINEAR, EXPONENTIAL}

\* a value that is no member of GrowthModel, and the values a caller can
\* hand to a projector as its model
UnknownModel == "Logistic"
ModelValues == GrowthModel \cup {UnknownModel}

----------------------------------------------------------------------------
(* calculate_revenue_projection *)

\* the Linear branch with compounding growth instead of a fixed increase
LinearRevenueCompounding(initial_revenue, linear_coefficient, month) ==
    RMul(initial_revenue,
         RPow(RAdd(FromInt(1), RDivInt(linear_coefficient, 100)), month))

\* Linear: the revenue grows by a percentage of the initial revenue each month
LinearRevenue(initial_revenue, linear_coefficient, month) ==
    LET monthly_increase ==
            RMul(initial_revenue, RDivInt(linear_coefficient, 100))
    IN  RAdd(initial_revenue, RMul(monthly_increase, FromInt(month)))

\* the Exponential branch with the exponent off by one
ExponentialRevenueOffByOne(initial_revenue, exponential_base, month) ==
    RMul(initial_revenue,
         RPow(RAdd(FromInt(1), RDivInt(exponential_base, 100)), month + 1))

\* Exponential: the revenue grows by exponential_base% each month
ExponentialRevenue(initial_revenue, exponential_base, month) ==
    RMul(initial_revenue,
         RPow(RAdd(FromInt(1), RDivInt(exponential_base, 100)), month))

\* the model dispatch with the Fixed branch growing like the Linear one
ModelRevenueFixedGrows(initial_revenue, month, model, linear_coefficient, exponential_base) ==
    IF model = EXPONENTIAL
    THEN ExponentialRevenue(initial_revenue, exponential_base, month)
    ELSE LinearRevenue(initial_revenue, linear_coefficient, month)

\* the revenue of one month before clamping: the if / elif / else of the loop
ModelRevenue(initial_revenue, month, model, linear_coefficient, exponential_base) ==
    IF model = FIXED
    THEN initial_revenue
    ELSE IF model = LINEAR
         THEN LinearRevenue(initial_revenue, linear_coefficient, month)
         ELSE ExponentialRevenue(initial_revenue, exponential_base, month)

\* the Exponential branch raises in this month: the power overflows
RevenueRaises(month, model, exponential_base) ==
    /\ model \notin {FIXED, LINEAR}
    /\ PowerNearRange(Trunc(exponential_base), month)
    /\ FPowOverflows(FPlus(FFromInt(1),
                           FDivInt(FFromRat(exponential_base), 100)),
                     month)

\* an iteration of the loop raises
RevenueProjectionRaises(months, model, exponential_base) ==
    \E month \in 0..months : RevenueRaises(month, model, exponential_base)

\* appending the revenue without the max(0, .)
AppendRevenueUnclamped(revenues, revenue) == Append(revenues, revenue)

\* revenues.append(max(0, revenue))
AppendRevenue(revenues, revenue) == Append(revenues, Max0(revenue))

\* the loop "for month in range(months + 1)", from iteration month on
RECURSIVE RevenueLoop(_, _, _, _, _, _, _)
RevenueLoop(revenues, month, initial_revenue, months, model, linear_coefficient, exponential_base) ==
    IF month >= months + 1
    THEN revenues
    ELSE RevenueLoop(
             AppendRevenue(revenues,
                           ModelRevenue(initial_revenue, month, model,
                                        linear_coefficient, exponential_base)),
             month + 1, initial_revenue, months, model,
             linear_coefficient, exponential_base)

\* the list of the revenues, or OverflowError when an iteration raises
calculate_revenue_projection(initial_revenue, months, model, linear_coefficient, exponential_base) ==
    IF RevenueProjectionRaises(months, model, exponential_base)
    THEN OverflowError
    ELSE RevenueLoop(<<>>, 0, initial_revenue, months, model,
                     linear_coefficient, exponential_base)

----------------------------------------------------------------------------
(* calculate_customer_flow *)

\* new customers of one month: the if / elif / else on the growth model
NewThisMonth(new_customers, month, growth_model, linear_growth, exponential_growth, pow) ==
    IF growth_model = FIXED
    THEN new_customers
    ELSE IF growth_model = LINEAR
         THEN FTrunc(FTimes(FFromInt(new_customers),
                            FPlus(FFromInt(1),
                                  FTimes(FDivInt(FFromInt(linear_growth), 100),
                                         FFromInt(month)))))
         ELSE LET growth_rate == FDivInt(FFromInt(exponential_growth), 100)
              IN  FTrunc(FTimes(FFromInt(new_customers),
                                FPow(FPlus(FFromInt(1), growth_rate),
                                     month,
                                     <<exponential_growth, month>> \in pow)))

\* the Exponential branch raises in this month: the power overflows, or
\* its product with new_customers is inf, which int() refuses
NewThisMonthRaises(new_customers, month, growth_model, exponential_growth, pow) ==
    /\ growth_model \notin {FIXED, LINEAR}
    /\ PowerNearRange(exponential_growth, month)
    /\ \/ FPowOverflows(GrowthBase(exponential_growth), month)
       \/ ~FFinite(FTimes(FFromInt(new_customers),
                          FPow(GrowthBase(exponential_growth), month,
                               <<exponential_growth, month>> \in pow)))

\* churned_this_month = int(current_total * (churn_rate / 100))
ChurnedThisMonth(current_total, churn_rate) ==
    FTrunc(FTimes(FFromInt(current_total), FDivInt(FFromInt(churn_rate), 100)))

\* the update of the total without the max(0, .)
UpdateTotalUnclamped(current_total, new_this_month, churned_this_month) ==
    current_total + new_this_month - churned_this_month

\* current_total = max(0, current_total + new_this_month - churned_this_month)
UpdateTotal(current_total, new_this_month, churned_this_month) ==
    IntMax0(current_total + new_this_month - churned_this_month)

\* one iteration of the loop: new, churn, update of the total, the appends
FlowStep(flow, month, new_customers, churn_rate, growth_model, linear_growth, exponential_growth, pow) ==
    LET new_this_month == NewThisMonth(new_customers, month, growth_model,
                                       linear_growth, exponential_growth,
                                       pow)
        churned_this_month == ChurnedThisMonth(flow.current_total, churn_rate)
        current_total == UpdateTotal(flow.current_total, new_this_month,
                                     churned_this_month)
    IN  [current_total |-> current_total,
         new_per_month |-> Append(flow.new_per_month, new_this_month),
         churned_per_month |->
             Append(flow.churned_per_month, churned_this_month),
         total_customers |-> Append(flow.total_customers, current_total)]

\* the loop "for month in range(months + 1)", from iteration month on
RECURSIVE FlowLoop(_, _, _, _, _, _, _, _, _)
FlowLoop(flow, month, new_customers, churn_rate, months, growth_model, linear_growth, exponential_growth, pow) ==
    IF month >= months + 1
    THEN flow
    ELSE IF NewThisMonthRaises(new_customers, month, growth_model,
                               exponential_growth, pow)
         THEN OverflowError
         ELSE FlowLoop(FlowStep(flow, month, new_customers, churn_rate,
                                growth_model, linear_growth,
                                exponential_growth, pow),
                       month + 1, new_customers, churn_rate, months,
                       growth_model, linear_growth, exponential_growth, pow)

\* what the function leaves: the three lists, or OverflowError
FlowResult(flow) ==
    IF flow = OverflowError
    THEN OverflowError
    ELSE [new_per_month |-> flow.new_per_month,
          churned_per_month |-> flow.churned_per_month,
          total_customers |-> flow.total_customers]

\* the function with the loop over range(months) instead of range(months + 1)
calculate_customer_flow_short(initial_customers, new_customers, churn_rate, months, growth_model, linear_growth, exponential_growth, pow) ==
    FlowResult(FlowLoop([current_total |-> initial_customers,
                         new_per_month |-> <<>>,
                         churned_per_month |-> <<>>,
                         total_customers |-> <<>>],
                        1, new_customers, churn_rate, months, growth_model,
                        linear_growth, exponential_growth, pow))

\* the returned tuple (new_per_month, churned_per_month, total_customers),
\* or OverflowError when an iteration raises
calculate_customer_flow(initial_customers, new_customers, churn_rate, months, growth_model, linear_growth, exponential_growth, pow) ==
    FlowResult(FlowLoop([current_total |-> initial_customers,
                         new_per_month |-> <<>>,
                         churned_per_month |-> <<>>,
                         total_customers |-> <<>>],
                        0, new_customers, churn_rate, months, growth_model,
                        linear_growth, exponential_growth, pow))

----------------------------------------------------------------------------
(* calculate_customer_projection *)

\* the customer count carried into the next month
NextCustomers(current_customers, metrics, month, model, linear_growth, exponential_growth, pow) ==
    IF model = FIXED
    THEN current_customers + metrics.new
    ELSE IF model = LINEAR
         THEN current_customers + metrics.new + (linear_growth * month)
         ELSE LET growth_rate == FDivInt(FFromInt(exponential_growth), 100)
              IN  FTrunc(FTimes(FFromInt(metrics.total),
                                FPow(FPlus(FFromInt(1), growth_rate),
                                     month,
                                     <<exponential_growth, month>> \in pow)))

\* the Exponential branch raises in this month: the power overflows, or
\* its product with metrics.total is inf, which int() refuses
NextCustomersRaises(metrics, month, model, exponential_growth, pow) ==
    /\ model \notin {FIXED, LINEAR}
    /\ PowerNearRange(exponential_growth, month)
    /\ \/ FPowOverflows(GrowthBase(exponential_growth), month)
       \/ ~FFinite(FTimes(FFromInt(metrics.total),
                          FPow(GrowthBase(exponential_growth), month,
                               <<exponential_growth, month>> \in pow)))

\* an iteration of the inner loop of a segment raises
CustomersLoopRaises(metrics, months, model, exponential_growth, pow) ==
    \E month \in 0..months :
        NextCustomersRaises(metrics, month, model, exponential_growth, pow)

\* the inner loop "for month in range(months + 1)", from iteration month on
RECURSIVE CustomersLoop(_, _, _, _, _, _, _, _, _)
CustomersLoop(customers, current_customers, month, metrics, months, model, linear_growth, exponential_growth, pow) ==
    IF month >= months + 1
    THEN customers
    ELSE CustomersLoop(Append(customers, current_customers),
                       NextCustomers(current_customers, metrics, month, model,
                                     linear_growth, exponential_growth, pow),
                       month + 1, metrics, months, model,
                       linear_growth, exponential_growth, pow)

\* the projection with every segment started from its total and its new
\* customers instead of its total
calculate_customer_projection_ahead(b2b_metrics, b2c_metrics, months, model, linear_growth, exponential_growth, pow) ==
    IF \/ CustomersLoopRaises(b2b_metrics, months, model, exponential_growth,
                              pow)
       \/ CustomersLoopRaises(b2c_metrics, months, model, exponential_growth,
                              pow)
    THEN OverflowError
    ELSE [t \in {b2b_metrics.type, b2c_metrics.type} |->
             IF t = b2c_metrics.type
             THEN CustomersLoop(<<>>, b2c_metrics.total + b2c_metrics.new, 0,
                                b2c_metrics, months, model, linear_growth,
                                exponential_growth, pow)
             ELSE CustomersLoop(<<>>, b2b_metrics.total + b2b_metrics.new, 0,
                                b2b_metrics, months, model, linear_growth,
                                exponential_growth, pow)]

\* the dict {metrics.type: customers}, the second segment stored last, or
\* OverflowError when the loop of the first or of the second segment raises
calculate_customer_projection(b2b_metrics, b2c_metrics, months, model, linear_growth, exponential_growth, pow) ==
    IF \/ CustomersLoopRaises(b2b_metrics, months, model, exponential_growth,
                              pow)
       \/ CustomersLoopRaises(b2c_metrics, months, model, exponential_growth,
                              pow)
    THEN OverflowError
    ELSE [t \in {b2b_metrics.type, b2c_metrics.type} |->
             IF t = b2c_metrics.type
             THEN CustomersLoop(<<>>, b2c_metrics.total, 0, b2c_metrics,
                                months, model, linear_growth,
                                exponential_growth, pow)
             ELSE CustomersLoop(<<>>, b2b_metrics.total, 0, b2b_metrics,
                                months, model, linear_growth,
                                exponential_growth, pow)]

----------------------------------------------------------------------------
(* The scalar formulas: calculate_runway, calculate_burn_rate,               *)
(* calculate_mom_growth, calculate_ltv_cac_ratio,                          *)
(* calculate_lifetime_from_churn                                           *)

\* what a call that raises leaves instead of a value
ValueError == [raised |-> "ValueError"]
ZeroDivisionError == [raised |-> "ZeroDivisionError"]

\* float("inf")
Infinity == [n |-> 1, d |-> 0]

\* float("nan"), as 0 * float("inf") gives
NaN == [n |-> 0, d |-> 0]

IsFinite(x) == x.d /= 0

\* x * y of floats: the rational product, or IEEE's for inf and nan
FMul(x, y) ==
    IF IsFinite(x) /\ IsFinite(y)
    THEN RMul(x, y)
    ELSE IF x.n = 0 \/ y.n = 0
         THEN NaN
         ELSE IF (x.n < 0) = (y.n < 0) THEN Infinity ELSE [n |-> -1, d |-> 0]

\* arguments that are neither int nor float
NonNumeric == {[pytype |-> "str"], [pytype |-> "NoneType"]}

\* isinstance(x, (int, float))
IsNumeric(x) == "n" \in DOMAIN x

IsNaN(x) == x.n = 0 /\ x.d = 0

\* x + y of floats: the rational sum, or IEEE's for inf and nan
FAdd(x, y) ==
    IF IsFinite(x) /\ IsFinite(y) THEN RAdd(x, y)
    ELSE IF IsNaN(x) \/ IsNaN(y) THEN NaN
    ELSE IF IsFinite(x) THEN y
    ELSE IF IsFinite(y) \/ x = y THEN x
    ELSE NaN

\* x - y of floats
FSub(x, y) == FAdd(x, RNeg(y))

\* x < y of floats: False when one of them is nan
FLess(x, y) ==
    IF IsNaN(x) \/ IsNaN(y) THEN FALSE
    ELSE IF IsFinite(x) \/ IsFinite(y) THEN RLess(x, y)
    ELSE x.n < y.n

\* x <= y of floats: False when one of them is nan
FLeq(x, y) == ~IsNaN(x) /\ ~IsNaN(y) /\ ~FLess(y, x)

\* 1 / y for y that is not 0: 0 for an infinity, nan for nan
Reciprocal(y) ==
    IF ~IsFinite(y) THEN (IF IsNaN(y) THEN NaN ELSE FromInt(0))
    ELSE IF y.n < 0 THEN [n |-> -y.d, d |-> -y.n]
    ELSE [n |-> y.d, d |-> y.n]

\* x / y of Python: a zero divisor raises, nan and the infinities divide
\* as IEEE says
RDiv(x, y) ==
    IF y = FromInt(0) THEN ZeroDivisionError ELSE FMul(x, Reciprocal(y))

calculate_runway(cash_balance, monthly_burn) ==
    IF ~IsNumeric(cash_balance) \/ ~IsNumeric(monthly_burn)
    THEN ValueError
    ELSE IF FLeq(monthly_burn, FromInt(0))
         THEN FromInt(0)
         ELSE RDiv(cash_balance, monthly_burn)

\* the burn rate clamped at 0
calculate_burn_rate_clamped(revenues, expenses) ==
    IF ~IsNumeric(revenues) \/ ~IsNumeric(expenses)
    THEN ValueError
    ELSE Max0(FSub(expenses, revenues))

calculate_burn_rate(revenues, expenses) ==
    IF ~IsNumeric(revenues) \/ ~IsNumeric(expenses)
    THEN ValueError
    ELSE FSub(expenses, revenues)

\* the growth rate without the test of previous == 0
calculate_mom_growth_unguarded(current, previous) ==
    LET q == RDiv(FSub(current, previous), previous)
    IN  IF IsNumeric(q) THEN FMul(q, FromInt(100)) ELSE q

calculate_mom_growth(current, previous) ==
    IF previous = FromInt(0)
    THEN FromInt(0)
    ELSE FMul(RDiv(FSub(current, previous), previous), FromInt(100))

calculate_ltv_cac_ratio(ltv, cac) ==
    IF cac = FromInt(0) THEN FromInt(0) ELSE RDiv(ltv, cac)

\* the lifetime with zero churn clamped to a finite value
calculate_lifetime_from_churn_clamped(churn_rate) ==
    IF FLess(FromInt(0), churn_rate)
    THEN RDiv(FromInt(1), RDiv(churn_rate, FromInt(100)))
    ELSE FromInt(0)

calculate_lifetime_from_churn(churn_rate) ==
    IF FLess(FromInt(0), churn_rate)
    THEN RDiv(FromInt(1), RDiv(churn_rate, FromInt(100)))
    ELSE Infinity

----------------------------------------------------------------------------
(* generate_scenario_projections *)

\* the years with a 29th of February
IsLeapYear(year) == year % 4 = 0 /\ (year % 100 /= 0 \/ year % 400 = 0)

\* the days of a month of the calendar of datetime
DaysInMonth(year, month) ==
    IF month = 2 /\ IsLeapYear(year)
    THEN 29
    ELSE <<31, 28, 31, 30, 31, 30, 31, 31, 30, 31, 30, 31>>[month]

\* strftime("%Y-%m") of the date `day` days after the first day of `month`
RECURSIVE YearMonth(_, _, _)
YearMonth(day, year, month) ==
    IF day < DaysInMonth(year, month)
    THEN <<year, month>>
    ELSE IF month = 12
         THEN YearMonth(day - DaysInMonth(year, month), year + 1, 1)
         ELSE YearMonth(day - DaysInMonth(year, month), year, month + 1)

\* the clock of a call: the day it begins on, in days since 2026-01-01, and
\* how many of its last readings of datetime.now() come after midnight
Clock(day, late) == [day |-> day, late |-> late]

\* the day datetime.now() gives at the k-th of the readings of a call
ReadNow(now, k, readings) ==
    IF k > readings - now.late THEN now.day + 1 ELSE now.day

\* dates: the label of datetime.now() + 30 * month days for each month of
\* the horizon, the clock read anew for each; the first of these readings
\* is the first-th of the call
Dates(now, first, readings, months) ==
    [i \in 1..(months + 1) |->
        YearMonth(ReadNow(now, first + i - 1, readings) + 30 * (i - 1),
                  2026, 1)]

\* the dates of the i-th scenario of the list
ScenarioDates(now, i, scenarios, months) ==
    Dates(now, (i - 1) * (months + 1) + 1, Len(scenarios) * (months + 1),
          months)

\* the expenses of a month: adjusted_expenses * (1.02 ** month)
ExpensesOfMonth(adjusted_expenses, month) ==
    RMul(adjusted_expenses, RPow(Rat(102, 100), month))

\* the cash loop recording the cash after the burn of the month
RECURSIVE CashLoopPostDecrement(_, _, _, _, _, _)
CashLoopPostDecrement(projected_cash, current_cash, month, months, revenues, adjusted_expenses) ==
    IF month >= months + 1
    THEN projected_cash
    ELSE LET monthly_burn ==
                 calculate_burn_rate(revenues[month + 1],
                                     ExpensesOfMonth(adjusted_expenses, month))
         IN  CashLoopPostDecrement(
                 Append(projected_cash, RSub(current_cash, monthly_burn)),
                 RSub(current_cash, monthly_burn),
                 month + 1, months, revenues, adjusted_expenses)

\* the cash loop "for month in range(months + 1)", from iteration month on
RECURSIVE CashLoop(_, _, _, _, _, _)
CashLoop(projected_cash, current_cash, month, months, revenues, adjusted_expenses) ==
    IF month >= months + 1
    THEN projected_cash
    ELSE LET monthly_burn ==
                 calculate_burn_rate(revenues[month + 1],
                                     ExpensesOfMonth(adjusted_expenses, month))
         IN  CashLoop(Append(projected_cash, current_cash),
                      RSub(current_cash, monthly_burn),
                      month + 1, months, revenues, adjusted_expenses)

\* the revenues of a scenario with the growth coefficients left unscaled
ScenarioRevenuesUnscaledGrowth(scenario, monthly_revenue, months, revenue_model, linear_coefficient, exponential_base) ==
    calculate_revenue_projection(
        RMul(monthly_revenue, scenario.revenue_multiplier), months,
        revenue_model, linear_coefficient, exponential_base)

\* the revenue progression of a scenario
ScenarioRevenues(scenario, monthly_revenue, months, revenue_model, linear_coefficient, exponential_base) ==
    LET adjusted_initial_revenue ==
            RMul(monthly_revenue, scenario.revenue_multiplier)
    IN  calculate_revenue_projection(
            adjusted_initial_revenue, months, revenue_model,
            RMul(linear_coefficient, scenario.revenue_multiplier),
            RMul(exponential_base, scenario.revenue_multiplier))

\* the tuple (name, dates, projected_cash, color) of one scenario
ScenarioProjection(scenario, dates, cash_balance, monthly_revenue, monthly_expenses, months, revenue_model, linear_coefficient, exponential_base) ==
    LET adjusted_expenses ==
            RMul(monthly_expenses, scenario.expense_multiplier)
        revenues == ScenarioRevenues(scenario, monthly_revenue, months,
                                     revenue_model, linear_coefficient,
                                     exponential_base)
    IN  [name |-> scenario.name,
         dates |-> dates,
         projected_cash |-> CashLoop(<<>>, cash_balance, 0, months,
                                     revenues, adjusted_expenses),
         color |-> scenario.color]

\* the loop over the scenarios with each projection put in front of the list
RECURSIVE ScenariosLoopPrepend(_, _, _, _, _, _, _, _, _, _, _)
ScenariosLoopPrepend(projections, i, now, cash_balance, monthly_revenue, monthly_expenses, months, scenarios, revenue_model, linear_coefficient, exponential_base) ==
    IF i > Len(scenarios)
    THEN projections
    ELSE ScenariosLoopPrepend(
             <<ScenarioProjection(scenarios[i],
                                  ScenarioDates(now, i, scenarios, months),
                                  cash_balance,
                                  monthly_revenue, monthly_expenses, months,
                                  revenue_model, linear_coefficient,
                                  exponential_base)>> \o projections,
             i + 1, now, cash_balance, monthly_revenue, monthly_expenses,
             months, scenarios, revenue_model, linear_coefficient,
             exponential_base)

\* the loop with the running cash not reset: each scenario starts from the
\* cash the scenario before it ended with
RECURSIVE ScenariosLoopCarryCash(_, _, _, _, _, _, _, _, _, _, _)
ScenariosLoopCarryCash(projections, i, now, cash_balance, monthly_revenue, monthly_expenses, months, scenarios, revenue_model, linear_coefficient, exponential_base) ==
    IF i > Len(scenarios)
    THEN projections
    ELSE LET current_cash ==
                 IF projections = <<>>
                 THEN cash_balance
                 ELSE projections[Len(projections)].projected_cash[months + 1]
         IN  ScenariosLoopCarryCash(
                 Append(projections,
                        ScenarioProjection(scenarios[i],
                                           ScenarioDates(now, i, scenarios,
                                                         months),
                                           current_cash,
                                           monthly_revenue, monthly_expenses,
                                           months, revenue_model,
                                           linear_coefficient,
                                           exponential_base)),
                 i + 1, now, cash_balance, monthly_revenue, monthly_expenses,
                 months, scenarios, revenue_model, linear_coefficient,
                 exponential_base)

\* the loop "for scenario in scenarios", from the i-th scenario on
RECURSIVE ScenariosLoop(_, _, _, _, _, _, _, _, _, _, _)
ScenariosLoop(projections, i, now, cash_balance, monthly_revenue, monthly_expenses, months, scenarios, revenue_model, linear_coefficient, exponential_base) ==
    IF i > Len(scenarios)
    THEN projections
    ELSE ScenariosLoop(
             Append(projections,
                    ScenarioProjection(scenarios[i],
                                  ScenarioDates(now, i, scenarios, months),
                                  cash_balance,
                                       monthly_revenue, monthly_expenses,
                                       months, revenue_model,
                                       linear_coefficient, exponential_base)),
             i + 1, now, cash_balance, monthly_revenue, monthly_expenses,
             months, scenarios, revenue_model, linear_coefficient,
             exponential_base)

\* the revenue projection of a scenario of the list raises.  1.02 ** month
\* stays in range for every month below 35000
ScenarioProjectionsRaise(months, scenarios, revenue_model, exponential_base) ==
    \E i \in 1..Len(scenarios) :
        RevenueProjectionRaises(
            months, revenue_model,
            RMul(exponential_base, scenarios[i].revenue_multiplier))

\* now is the clock of the call; the list of the projections, or
\* OverflowError
generate_scenario_projections(now, cash_balance, monthly_revenue, monthly_expenses, months, scenarios, revenue_model, linear_coefficient, exponential_base) ==
    IF ScenarioProjectionsRaise(months, scenarios, revenue_model,
                                exponential_base)
    THEN OverflowError
    ELSE ScenariosLoop(<<>>, 1, now, cash_balance, monthly_revenue,
                       monthly_expenses, months, scenarios, revenue_model,
                       linear_coefficient, exponential_base)

----------------------------------------------------------------------------
(* generate_runway_projection *)

\* projected_cash: cash_balance - burn_rate * month for each month of the
\* runway
RunwayCashPoints(cash_balance, burn_rate, runway_months) ==
    [i \in 1..(Trunc(runway_months) + 1) |->
        RSub(cash_balance, RMul(burn_rate, FromInt(i - 1)))]

generate_runway_projection(now, cash_balance, burn_rate, runway_months) ==
    [dates |-> Dates(now, 1, Trunc(runway_months) + 1,
                     Trunc(runway_months)),
     projected_cash |->
         RunwayCashPoints(cash_balance, burn_rate, runway_months)]

----------------------------------------------------------------------------
(* @st.cache_data on generate_scenario_projections and                     *)
(* generate_runway_projection.  The store lives in the memory of the       *)
(* process and outlives every return: it holds one entry for each set of   *)
(* arguments a cached function was called with, in the order of the first  *)
(* calls.                                                                  *)

\* what the decorator hashes: the arguments of the call; the day of the call
\* is none of them
CacheKey(a) == [f \in DOMAIN a \ {"now", "late"} |-> a[f]]

Hit(c, function, key) ==
    \E i \in DOMAIN c : c[i].function = function /\ c[i].key = key

\* the value the store holds for these arguments
Cached(c, function, key) ==
    c[CHOOSE i \in DOMAIN c : c[i].function = function /\ c[i].key = key].value

\* the store after the call returned value: a miss adds an entry
Store(c, function, key, value) ==
    IF Hit(c, function, key)
    THEN c
    ELSE Append(c, [function |-> function, key |-> key, value |-> value])

\* the decorated generate_runway_projection
RunwayProjectionCached(c, now, a) ==
    IF Hit(c, "generate_runway_projection", CacheKey(a))
    THEN Cached(c, "generate_runway_projection", CacheKey(a))
    ELSE generate_runway_projection(now, a.cash_balance, a.burn_rate,
                                    a.runway_months)

\* the decorated function: the stored value of these arguments, or else the
\* value the body computes now
ScenarioProjectionsCached(c, now, a) ==
    IF Hit(c, "generate_scenario_projections", CacheKey(a))
    THEN Cached(c, "generate_scenario_projections", CacheKey(a))
    ELSE generate_scenario_projections(
             now, FromInt(a.cash_balance), FromInt(a.monthly_revenue),
             FromInt(a.monthly_expenses), a.months, a.scenarios,
             a.revenue_model, FromInt(a.linear_coefficient),
             FromInt(a.exponential_base))

----------------------------------------------------------------------------
(* main: one evaluation of the page from the values of its widgets, w *)

\* the scenarios main defines
MainScenarios ==
    << [name |-> "Best Case", revenue_multiplier |-> Rat(12, 10),
        expense_multiplier |-> Rat(9, 10),
        customer_growth_multiplier |-> Rat(115, 100), color |-> "green"],
       [name |-> "Normal Case", revenue_multiplier |-> Rat(1, 1),
        expense_multiplier |-> Rat(1, 1),
        customer_growth_multiplier |-> Rat(110, 100), color |-> "blue"],
       [name |-> "Worst Case", revenue_multiplier |-> Rat(8, 10),
        expense_multiplier |-> Rat(11, 10),
        customer_growth_multiplier |-> Rat(105, 100), color |-> "red"] >>

\* the checks before the calculations, with the test of the new B2B
\* customers against their total left out
ValidateWithoutB2BNew(w) ==
    IF w.cash_balance < 0 \/ w.monthly_revenue < 0 \/ w.monthly_expenses < 0
    THEN "Financial values cannot be negative"
    ELSE IF \/ w.b2b_total < 0
            \/ w.b2c_total < 0
            \/ w.b2c_new > w.b2c_total
         THEN "Invalid customer metrics"
         ELSE "none"

\* the checks before the calculations: the message of st.error, or "none"
Validate(w) ==
    IF w.cash_balance < 0 \/ w.monthly_revenue < 0 \/ w.monthly_expenses < 0
    THEN "Financial values cannot be negative"
    ELSE IF \/ w.b2b_total < 0
            \/ w.b2b_new > w.b2b_total
            \/ w.b2c_total < 0
            \/ w.b2c_new > w.b2c_total
         THEN "Invalid customer metrics"
         ELSE "none"

total_customers(w) == w.b2b_total + w.b2c_total
new_customers(w) == w.b2b_new + w.b2c_new

\* the plain mean of the two acquisition costs
weighted_cac_unweighted(w) ==
    IF total_customers(w) > 0
    THEN RDivInt(FromInt(w.b2b_cac + w.b2c_cac), 2)
    ELSE FromInt(0)

weighted_cac(w) ==
    IF total_customers(w) > 0
    THEN RDiv(FromInt(w.b2b_cac * w.b2b_total + w.b2c_cac * w.b2c_total),
              FromInt(total_customers(w)))
    ELSE FromInt(0)

weighted_churn(w) ==
    IF total_customers(w) > 0
    THEN RDiv(FromInt(w.b2b_churn_rate * w.b2b_total
                      + w.b2c_churn_rate * w.b2c_total),
              FromInt(total_customers(w)))
    ELSE FromInt(0)

arpu(w) ==
    IF total_customers(w) > 0
    THEN RDiv(FromInt(w.monthly_revenue), FromInt(total_customers(w)))
    ELSE FromInt(0)

conversion_rate(w) ==
    IF total_customers(w) > 0
    THEN RMul(RDiv(FromInt(new_customers(w)), FromInt(total_customers(w))),
              FromInt(100))
    ELSE FromInt(0)

\* the metrics main calculates for the page
Metrics(w) ==
    LET burn_rate == calculate_burn_rate(FromInt(w.monthly_revenue),
                                         FromInt(w.monthly_expenses))
        average_lifetime == calculate_lifetime_from_churn(weighted_churn(w))
        ltv == FMul(arpu(w), average_lifetime)
    IN  [burn_rate |-> burn_rate,
         runway_months |-> calculate_runway(FromInt(w.cash_balance), burn_rate),
         mom_growth |->
             calculate_mom_growth(FromInt(w.monthly_revenue),
                                  FromInt(w.previous_month_revenue)),
         total_customers |-> total_customers(w),
         new_customers |-> new_customers(w),
         weighted_cac |-> weighted_cac(w),
         weighted_churn |-> weighted_churn(w),
         average_lifetime |-> average_lifetime,
         arpu |-> arpu(w),
         ltv |-> ltv,
         ltv_cac_ratio |-> calculate_ltv_cac_ratio(ltv, weighted_cac(w)),
         conversion_rate |-> conversion_rate(w)]

\* the burn rate and the runway shown for one scenario
\* adjusted_expenses - adjusted_revenue as the floats give it: each
\* product is rounded, and so is the multiplier it is made with
ScenarioBurnFloat(scenario, w) ==
    FMinus(FTimes(FFromInt(w.monthly_expenses),
                  FFromRat(scenario.expense_multiplier)),
           FTimes(FFromInt(w.monthly_revenue),
                  FFromRat(scenario.revenue_multiplier)))

\* the metrics of a scenario whose two products are the same number, but
\* not the same float: the burn rate is what the roundings leave of it, a
\* few units of the last place, and the runway is cash_balance over it, or
\* 0 when it is negative
ScenarioMetricsTied(burn, w) ==
    [burn_rate |-> burn,
     runway |-> IF burn.s < 0
                THEN FromInt(0)
                ELSE FDivShort(FFromInt(w.cash_balance), burn)]

\* the metrics of a scenario, as exact numbers where the roundings do not
\* decide the branch of calculate_runway, and as floats where they do
ScenarioMetricsOf(scenario_burn_rate, scenario, w) ==
    IF scenario_burn_rate = FromInt(0)
       /\ ScenarioBurnFloat(scenario, w).m /= <<>>
    THEN ScenarioMetricsTied(ScenarioBurnFloat(scenario, w), w)
    ELSE [burn_rate |-> scenario_burn_rate,
          runway |-> calculate_runway(FromInt(w.cash_balance),
                                      scenario_burn_rate)]

ScenarioMetrics(scenario, w) ==
    ScenarioMetricsOf(
        calculate_burn_rate(
            RMul(FromInt(w.monthly_revenue), scenario.revenue_multiplier),
            RMul(FromInt(w.monthly_expenses), scenario.expense_multiplier)),
        scenario, w)

\* the cash chart: the scenario projections, or the single runway projection
CashProjection(w) ==
    IF w.show_scenarios
    THEN generate_scenario_projections(
             Clock(w.now, w.late), FromInt(w.cash_balance),
             FromInt(w.monthly_revenue),
             FromInt(w.monthly_expenses), w.projection_months, MainScenarios,
             w.revenue_growth_model, FromInt(w.revenue_linear_coefficient),
             FromInt(w.revenue_exponential_base))
    ELSE generate_runway_projection(
             Clock(w.now, w.late), FromInt(w.cash_balance),
             Metrics(w).burn_rate,
             Metrics(w).runway_months)

\* how often the cash chart reads datetime.now(): once for each label
MainReadings(w) ==
    IF Validate(w) /= "none"
    THEN 0
    ELSE IF w.show_scenarios
         THEN Len(MainScenarios) * (w.projection_months + 1)
         ELSE Trunc(Metrics(w).runway_months) + 1

\* the revenue chart: one projection per scenario, or the single projection
RevenueProjections(w) ==
    IF w.show_scenarios
    THEN [i \in 1..Len(MainScenarios) |->
             ScenarioRevenues(MainScenarios[i], FromInt(w.monthly_revenue),
                              w.projection_months, w.revenue_growth_model,
                              FromInt(w.revenue_linear_coefficient),
                              FromInt(w.revenue_exponential_base))]
    ELSE << calculate_revenue_projection(
                FromInt(w.monthly_revenue), w.projection_months,
                w.revenue_growth_model, FromInt(w.revenue_linear_coefficient),
                FromInt(w.revenue_exponential_base)) >>

\* everything one evaluation of the page computes, given the two customer
\* flows of its charts; an input the checks reject leaves the message and
\* nothing else
PageOf(w, b2b_flow, b2c_flow) ==
    IF Validate(w) /= "none"
    THEN [error |-> Validate(w)]
    ELSE [error |-> "none",
          metrics |-> Metrics(w),
          scenario_metrics |->
              IF w.show_scenarios
              THEN [i \in 1..Len(MainScenarios) |->
                       ScenarioMetrics(MainScenarios[i], w)]
              ELSE <<>>,
          cash_projection |-> CashProjection(w),
          revenue_projections |-> RevenueProjections(w),
          b2b_flow |-> b2b_flow,
          b2c_flow |-> b2c_flow]

\* the customer flow of the B2B chart
B2BFlow(w) ==
    calculate_customer_flow(
        w.b2b_total, w.b2b_new, w.b2b_churn_rate, w.projection_months,
        w.b2b_growth_model, w.b2b_linear_growth, w.b2b_exponential_growth,
        w.pow)

\* the customer flow of the B2C chart
B2CFlow(w) ==
    calculate_customer_flow(
        w.b2c_total, w.b2c_new, w.b2c_churn_rate, w.projection_months,
        w.b2c_growth_model, w.b2c_linear_growth, w.b2c_exponential_growth,
        w.pow)

\* everything one evaluation of the page computes
Page(w) == PageOf(w, B2BFlow(w), B2CFlow(w))

\* what the evaluation leaves in the store: the entry of its cash chart
PageCache(w) ==
    IF Validate(w) /= "none"
    THEN <<>>
    ELSE IF w.show_scenarios
         THEN Store(<<>>, "generate_scenario_projections",
                    [cash_balance |-> w.cash_balance,
                     monthly_revenue |-> w.monthly_revenue,
                     monthly_expenses |-> w.monthly_expenses,
                     months |-> w.projection_months,
                     scenarios |-> MainScenarios,
                     revenue_model |-> w.revenue_growth_model,
                     linear_coefficient |-> w.revenue_linear_coefficient,
                     exponential_base |-> w.revenue_exponential_base],
                    CashProjection(w))
         ELSE Store(<<>>, "generate_runway_projection",
                    [cash_balance |-> w.cash_balance,
                     burn_rate |-> Metrics(w).burn_rate,
                     runway_months |-> Metrics(w).runway_months],
                    CashProjection(w))

----------------------------------------------------------------------------
(* MetricsDB (src/database_manager.py): the table metrics of               *)
(* startup_metrics.db, save_metrics and get_latest_metrics.  A value is    *)
(* [t, v]: its Python type and, for a number, its value.                   *)

PyNone == [t |-> "NoneType", v |-> 0]
PyInt(v) == [t |-> "int", v |-> v]
PyFloat(v) == [t |-> "float", v |-> v]

\* the columns of the table after id and date, in the order of CREATE TABLE
Fields ==
    << "cash_balance", "monthly_revenue", "monthly_expenses",
       "b2b_total", "b2b_new", "b2b_cac", "b2b_churn_rate",
       "b2c_total", "b2c_new", "b2c_cac", "b2c_churn_rate" >>

\* the columns declared INTEGER; the others are declared REAL
IntegerFields == {"b2b_total", "b2b_new", "b2c_total", "b2c_new"}

\* what SQLite stores in a column of that type: a REAL column turns an int
\* into a float, an INTEGER column turns a whole float into an int
Affinity(field, x) ==
    IF field \in IntegerFields
    THEN IF x.t = "float" THEN PyInt(x.v) ELSE x
    ELSE IF x.t = "int" THEN PyFloat(x.v) ELSE x

\* metrics.get(field) on the keyword arguments of save_metrics
KwGet(kw, field) == IF field \in DOMAIN kw THEN kw[field] ELSE PyNone

\* the row INSERT adds: id is the next rowid, date is
\* datetime.now().strftime("%Y-%m-%d"), which sorts as text the way the
\* days do, so the day number stands for it
InsertedRow(table, date, kw) ==
    <<Len(table) + 1, date>>
        \o [i \in 1..Len(Fields) |-> Affinity(Fields[i], KwGet(kw, Fields[i]))]

\* the rows ORDER BY date DESC can put first: those of the greatest date;
\* SQL leaves the order of rows of equal date open
FirstByDateDesc(table) ==
    { i \in 1..Len(table) : \A j \in 1..Len(table) : table[j][2] <= table[i][2] }

\* the dict get_latest_metrics builds from the row: row[2] to row[12]
RowDict(row) ==
    [cash_balance |-> row[3], monthly_revenue |-> row[4],
     monthly_expenses |-> row[5], b2b_total |-> row[6], b2b_new |-> row[7],
     b2b_cac |-> row[8], b2b_churn_rate |-> row[9], b2c_total |-> row[10],
     b2c_new |-> row[11], b2c_cac |-> row[12], b2c_churn_rate |-> row[13]]

\* return None
NoneResult == [none |-> TRUE]

----------------------------------------------------------------------------
(* setup_investor_database (src/VC_PE_ingester.py): the table investors of *)
(* investors.db is refilled from a CSV file.  A file is [exists, lines];   *)
(* a line is the list of fields csv.reader makes of it, the header line    *)
(* first.                                                                  *)

\* the number of columns of the table investors, of '?' of the INSERT
Columns == 7

\* cursor.executemany('INSERT INTO investors VALUES (?,?,?,?,?,?,?)', rows):
\* row after row; a row without seven fields raises ProgrammingError, a
\* firm_name already in the table raises IntegrityError
RECURSIVE InsertMany(_, _)
InsertMany(table, rows) ==
    IF rows = <<>> THEN [error |-> "none", table |-> table]
    ELSE LET row == Head(rows)
         IN  IF Len(row) /= Columns
             THEN [error |-> "ProgrammingError", table |-> table]
             ELSE IF \E i \in 1..Len(table) : table[i][1] = row[1]
             THEN [error |-> "IntegrityError", table |-> table]
             ELSE InsertMany(Append(table, row), Tail(rows))

\* as Transaction, without the DELETE
TransactionKeepingRows(table, lines) == InsertMany(table, Tail(lines))

\* next(csv_reader), DELETE FROM investors, executemany: what the open
\* transaction holds
Transaction(table, lines) == InsertMany(<<>>, Tail(lines))

\* the body of the try block: the exception it raises, or "none", and the
\* rows of the open transaction
Ingest(table, csv, busy) ==
    IF ~csv.exists THEN [error |-> "FileNotFoundError", table |-> table]
    ELSE IF csv.lines = <<>> THEN [error |-> "StopIteration", table |-> table]
    ELSE IF busy THEN [error |-> "OperationalError", table |-> table]
    ELSE Transaction(table, csv.lines)

\* the exceptions raised after the implicit BEGIN: the transaction is open
\* when conn.close() is called
InTransaction == {"OperationalError", "ProgrammingError", "IntegrityError"}

\* return conn
Connection == [connection |-> "sqlite3.Connection"]

----------------------------------------------------------------------------
(* Inputs *)

\* calculate_revenue_projection
Revenues == {-100, 0, 40, 10000}
LinearPcts == {-50, 0, 10, 50}
ExponentialPcts == {-150, -50, 0, 50, 100}

\* calculate_customer_flow
InitialCustomers == {-10, 0, 7, 100}
NewCustomers == {-5, 3, 10, 20}
ChurnRates == {-50, 0, 25, 29, 100, 150}
FlowLinearPcts == {-150, 50, 70}
FlowExponentialPcts == {-150, 13, 50}

\* a growth with 1 + growth / 100 = 2 ^ 24, and the horizons at which its
\* power of the last month is the last one in the range of a float
\* (2 ^ 1008) or the first one out of it (2 ^ 1032)
OverflowGrowth == 1677721500
OverflowMonths == {42, 43}

\* a flow large enough for one ulp of 7.67 ** 3 to show in the int, and
\* flows long and steep enough for the power, or for its product with
\* new_customers (65536 * 2 ^ 1008), to overflow
LargeFlows ==
    { [initial_customers |-> 0, new_customers |-> 1000000, churn_rate |-> 0,
       months |-> 3, growth_model |-> EXPONENTIAL, linear_growth |-> 0,
       exponential_growth |-> 667] }
    \cup { [initial_customers |-> -5, new_customers |-> 0,
            churn_rate |-> 0, months |-> 43, growth_model |-> EXPONENTIAL,
            linear_growth |-> 0, exponential_growth |-> OverflowGrowth],
           [initial_customers |-> 0, new_customers |-> 65536,
            churn_rate |-> 0, months |-> 42, growth_model |-> EXPONENTIAL,
            linear_growth |-> 0, exponential_growth |-> OverflowGrowth] }

\* revenue projections long and steep enough for the power to overflow
LargeRevenues ==
    [initial_revenue : {0}, months : OverflowMonths, model : {EXPONENTIAL},
     linear_coefficient : {0}, exponential_base : {OverflowGrowth}]

\* the growths a call raises 1 + growth_rate to the power of the month for:
\* the else branch takes every model but Fixed and Linear
ExponentialGrowthsOf(model, exponential_growth) ==
    IF model \in {FIXED, LINEAR} THEN {} ELSE {exponential_growth}

\* calculate_customer_projection: CustomerMetrics(total, new, cac, churn_rate,
\* type) of the two segments
B2BSegments ==
    [total : {-10, 0, 20, 100}, new : {0, 5}, cac : {500}, churn_rate : {2},
     type : {"B2B"}]
B2CSegments ==
    [total : {7, 80}, new : {15}, cac : {50}, churn_rate : {5},
     type : {"B2C", "B2B"}]
\* a projection large enough for one ulp of 7.67 ** 3 to show in the int,
\* and projections long and steep enough for the power to overflow
LargeProjections ==
    { [b2b_metrics |-> [total |-> 1000000, new |-> 0, cac |-> 500,
                        churn_rate |-> 2, type |-> "B2B"],
       b2c_metrics |-> [total |-> 7, new |-> 15, cac |-> 50,
                        churn_rate |-> 5, type |-> "B2C"],
       months |-> 4, model |-> EXPONENTIAL, linear_growth |-> 0,
       exponential_growth |-> 667] }
    \cup [b2b_metrics : {[total |-> 0, new |-> 0, cac |-> 500,
                          churn_rate |-> 2, type |-> "B2B"]},
          b2c_metrics : {[total |-> 0, new |-> 15, cac |-> 50,
                          churn_rate |-> 5, type |-> "B2C"]},
          months : OverflowMonths, model : {EXPONENTIAL},
          linear_growth : {0}, exponential_growth : {OverflowGrowth}]
LinearGrowths == {-3, 0, 2}
ExponentialGrowths == {-150, 0, 13, 50}

\* generate_scenario_projections
CashBalances == {-2500, 0, 100000}
MonthlyRevenues == {-10000, 0, 10000}
MonthlyExpenses == {-5000, 0, 5000, 20000}
ScenarioLinearPcts == {0, 50}
ScenarioExponentialPcts == {-150, 50}
\* days from 2026-01-01 to the day of the call
Nows == {0, 89}
\* how many of the last readings of the clock come after midnight
LateReadings == {0, 2}

\* Scenario(name, revenue_multiplier, expense_multiplier,
\*          customer_growth_multiplier, color)
ScenarioPool ==
    { [name |-> "Best Case", revenue_multiplier |-> Rat(3, 2),
       expense_multiplier |-> Rat(1, 2),
       customer_growth_multiplier |-> Rat(5, 4), color |-> "green"],
      [name |-> "Normal Case", revenue_multiplier |-> Rat(1, 1),
       expense_multiplier |-> Rat(1, 1),
       customer_growth_multiplier |-> Rat(1, 1), color |-> "blue"],
      [name |-> "Worst Case", revenue_multiplier |-> Rat(1, 2),
       expense_multiplier |-> Rat(3, 2),
       customer_growth_multiplier |-> Rat(3, 4), color |-> "red"] }

\* calculate_runway, calculate_burn_rate, calculate_mom_growth,
\* calculate_ltv_cac_ratio, calculate_lifetime_from_churn
RunwayCash == {FromInt(k) : k \in {-50000, 0, 50000, 100000}} \cup NonNumeric
RunwayBurns ==
    {FromInt(k) : k \in {-5000, 0, 12500, 20000, 40000}} \cup NonNumeric
BurnRevenues == {FromInt(k) : k \in {-4000, 0, 8000, 20000}} \cup NonNumeric
BurnExpenses == {FromInt(k) : k \in {-1000, 0, 8000, 20000}} \cup NonNumeric
MomCurrents == {FromInt(k) : k \in {-8000, 0, 10000, 12000}}
MomPreviouses == {FromInt(k) : k \in {-8000, 0, 8000, 10000}}
Ltvs == {FromInt(0), FromInt(-100), FromInt(400), Rat(2625, 2)}
Cacs == {FromInt(-50), FromInt(0), FromInt(160), FromInt(800), Rat(1, 2)}
LifetimeChurns == {FromInt(k) : k \in {-50, 0, 25, 50, 100, 200}}

\* main: the values of the widgets
WidgetCash == {100000}
WidgetRevenues == {0, 10000}
WidgetPreviousRevenues == {0, 8000}
WidgetExpenses == {5000, 60000}
WidgetB2BTotals == {0, 20}
WidgetB2BNews == {0, 5, 25}
WidgetB2CTotals == {0, 80}
\* the new customers tried with a total: a count within it and one beyond
WidgetB2CNews(b2c_total) == IF b2c_total = 0 THEN {0, 15} ELSE {15, 100}
\* a revenue and expenses that the Worst Case scenario turns into the same
\* number: 33000 * 0.8 = 24000 * 1.1
TiedFinances == {<<33000, 24000>>}
\* monthly_revenue and monthly_expenses
WidgetFinances == (WidgetRevenues \X WidgetExpenses) \cup TiedFinances
\* the growth model chosen and the sliders it shows: the slider of the model
\* not chosen is set to 0
WidgetRevenueModels ==
    { [model |-> FIXED, linear |-> 0, exponential |-> 0],
      [model |-> LINEAR, linear |-> 10, exponential |-> 0],
      [model |-> EXPONENTIAL, linear |-> 0, exponential |-> 10] }
WidgetB2BModels ==
    { [model |-> FIXED, linear |-> 0, exponential |-> 0],
      [model |-> LINEAR, linear |-> 10, exponential |-> 0],
      [model |-> EXPONENTIAL, linear |-> 0, exponential |-> 50] }
WidgetB2CModels ==
    { [model |-> FIXED, linear |-> 0, exponential |-> 0],
      [model |-> EXPONENTIAL, linear |-> 0, exponential |-> 50] }
\* how many of the last readings of the clock of the cash chart come after
\* midnight
WidgetLateReadings == {0, 1, 3}
\* the projection period: 3 to 36 months in steps of 3
ProjectionMonths == {m \in 3..MaxMonths : m % 3 = 0}

\* save_metrics: the keyword arguments of a call; the last one leaves
\* cash_balance out
Snapshots ==
    { [cash_balance |-> PyInt(1000), monthly_revenue |-> PyFloat(10000),
       monthly_expenses |-> PyInt(20000), b2b_total |-> PyInt(20),
       b2b_new |-> PyInt(5), b2b_cac |-> PyInt(500),
       b2b_churn_rate |-> PyFloat(2), b2c_total |-> PyInt(80),
       b2c_new |-> PyInt(15), b2c_cac |-> PyInt(50),
       b2c_churn_rate |-> PyFloat(5)],
      [cash_balance |-> PyFloat(2000), monthly_revenue |-> PyFloat(12000),
       monthly_expenses |-> PyInt(20000), b2b_total |-> PyFloat(25),
       b2b_new |-> PyInt(5), b2b_cac |-> PyInt(500),
       b2b_churn_rate |-> PyFloat(2), b2c_total |-> PyInt(90),
       b2c_new |-> PyInt(15), b2c_cac |-> PyInt(50),
       b2c_churn_rate |-> PyFloat(5)],
      [monthly_revenue |-> PyFloat(14000),
       monthly_expenses |-> PyInt(20000), b2b_total |-> PyInt(30),
       b2b_new |-> PyInt(5), b2b_cac |-> PyInt(500),
       b2b_churn_rate |-> PyFloat(2), b2c_total |-> PyInt(100),
       b2c_new |-> PyInt(15), b2c_cac |-> PyInt(50),
       b2c_churn_rate |-> PyFloat(5)] }
\* most rows of the table metrics, and the last day of the clock
MaxRows == 3
MaxDay == 2

\* setup_investor_database: the lines of CSV files.  Two lines of the same
\* firm, a line of three fields, one of eight, and a blank line
HeaderLine ==
    << "firm_name", "type", "location", "website", "office_contact",
       "portfolio_examples", "investment_focus" >>
LinePool ==
    { << "Acme Ventures", "VC", "Austin", "acme.vc", "Ann", "Foo", "SaaS" >>,
      << "Acme Ventures", "PE", "Boston", "acme.pe", "Bob", "Bar", "Health" >>,
      << "Birch Capital", "PE", "Denver", "birch.co", "Cy", "Baz", "Energy" >>,
      << "Cedar Partners", "VC", "Reno" >>,
      << "Dune Equity", "PE", "Miami", "dune.io", "Di", "Qux", "Retail",
         "extra" >>,
      << >> }
\* most data lines of a CSV file
MaxDataLines == 2
CsvFiles ==
    { [exists |-> FALSE, lines |-> <<>>], [exists |-> TRUE, lines |-> <<>>] }
    \cup { [exists |-> TRUE, lines |-> <<HeaderLine>> \o data] :
             data \in UNION { [1..k -> LinePool] : k \in 0..MaxDataLines } }

\* generate_runway_projection
RunwayProjectionInputs ==
    [cash_balance : {FromInt(0), FromInt(100000)},
     burn_rate : {FromInt(-5000), FromInt(0), FromInt(40000)},
     runway_months : {FromInt(-2), FromInt(0), Rat(3, 2), Rat(5, 2)}]

\* longest list of scenarios
MaxScenarios == 2

\* the lists of distinct scenarios
ScenarioLists ==
    { s \in UNION { [1..k -> ScenarioPool] : k \in 0..MaxScenarios } :
        \A i, j \in DOMAIN s : s[i] = s[j] => i = j }

----------------------------------------------------------------------------
(* The state machine *)

NoCall == [none |-> TRUE]

Init ==
    /\ pc = "idle"
    /\ op = "none"
    /\ args = NoCall
    /\ result = <<>>
    /\ cache = <<>>
    /\ earlier = <<>>
    /\ metrics_table = <<>>
    /\ today = 0
    /\ saved = <<>>
    /\ investors = <<>>
    /\ conn = "none"
    /\ locked = FALSE

CallRevenueProjection ==
    /\ pc = "idle"
    /\ \E a \in [initial_revenue : Revenues, months : 0..MaxMonths,
                  model : ModelValues, linear_coefficient : LinearPcts,
                  exponential_base : ExponentialPcts]
                 \cup LargeRevenues :
        /\ args' = a
        /\ result' = calculate_revenue_projection(
                         FromInt(a.initial_revenue), a.months, a.model,
                         FromInt(a.linear_coefficient),
                         FromInt(a.exponential_base))
        /\ pc' = IF RevenueProjectionRaises(a.months, a.model,
                                            FromInt(a.exponential_base))
                 THEN "raised"
                 ELSE "done"
    /\ op' = "calculate_revenue_projection"
    /\ UNCHANGED <<cache, earlier>>
    /\ UNCHANGED <<dbvars, ingestvars>>

CallCustomerFlow ==
    /\ pc = "idle"
    /\ \E a \in [initial_customers : InitialCustomers,
                  new_customers : NewCustomers, churn_rate : ChurnRates,
                  months : 0..MaxMonths, growth_model : ModelValues,
                  linear_growth : FlowLinearPcts,
                  exponential_growth : FlowExponentialPcts]
                 \cup LargeFlows :
        \E pow \in SUBSET HardPowers(
                       ExponentialGrowthsOf(a.growth_model,
                                            a.exponential_growth),
                       0..a.months) :
            /\ args' = [initial_customers |-> a.initial_customers,
                        new_customers |-> a.new_customers,
                        churn_rate |-> a.churn_rate, months |-> a.months,
                        growth_model |-> a.growth_model,
                        linear_growth |-> a.linear_growth,
                        exponential_growth |-> a.exponential_growth,
                        pow |-> pow]
            /\ result' = calculate_customer_flow(
                             a.initial_customers, a.new_customers,
                             a.churn_rate, a.months, a.growth_model,
                             a.linear_growth, a.exponential_growth, pow)
    /\ op' = "calculate_customer_flow"
    /\ pc' = IF result' = OverflowError THEN "raised" ELSE "done"
    /\ UNCHANGED <<cache, earlier>>
    /\ UNCHANGED <<dbvars, ingestvars>>

CallCustomerProjection ==
    /\ pc = "idle"
    /\ \E a \in [b2b_metrics : B2BSegments, b2c_metrics : B2CSegments,
                  months : 0..MaxMonths, model : ModelValues,
                  linear_growth : LinearGrowths,
                  exponential_growth : ExponentialGrowths]
                 \cup LargeProjections :
        \E pow \in SUBSET HardPowers(
                       ExponentialGrowthsOf(a.model, a.exponential_growth),
                       0..(a.months - 1)) :
            /\ args' = [b2b_metrics |-> a.b2b_metrics,
                        b2c_metrics |-> a.b2c_metrics, months |-> a.months,
                        model |-> a.model, linear_growth |-> a.linear_growth,
                        exponential_growth |-> a.exponential_growth,
                        pow |-> pow]
            /\ result' = calculate_customer_projection(
                             a.b2b_metrics, a.b2c_metrics, a.months, a.model,
                             a.linear_growth, a.exponential_growth, pow)
    /\ op' = "calculate_customer_projection"
    /\ pc' = IF result' = OverflowError THEN "raised" ELSE "done"
    /\ UNCHANGED <<cache, earlier>>
    /\ UNCHANGED <<dbvars, ingestvars>>

CallScenarioProjections ==
    /\ pc = "idle"
    /\ \E now \in Nows, late \in LateReadings, cash \in CashBalances,
          rev \in MonthlyRevenues, exp \in MonthlyExpenses,
          months \in 0..MaxScenarioMonths, scenarios \in ScenarioLists,
          model \in GrowthModel, lc \in ScenarioLinearPcts,
          eb \in ScenarioExponentialPcts :
        /\ late <= Len(scenarios) * (months + 1)
        /\ args' = [now |-> now, late |-> late, cash_balance |-> cash,
                    monthly_revenue |-> rev, monthly_expenses |-> exp,
                    months |-> months, scenarios |-> scenarios,
                    revenue_model |-> model, linear_coefficient |-> lc,
                    exponential_base |-> eb]
        /\ result' = ScenarioProjectionsCached(cache, Clock(now, late), args')
        /\ IF ScenarioProjectionsRaise(months, scenarios, model, FromInt(eb))
           THEN pc' = "raised" /\ cache' = cache
           ELSE /\ pc' = "done"
                /\ cache' = Store(cache, "generate_scenario_projections",
                                  CacheKey(args'), result')
    /\ op' = "generate_scenario_projections"
    /\ UNCHANGED earlier
    /\ UNCHANGED <<dbvars, ingestvars>>

\* a call of generate_runway_projection: the first of the process, or one
\* that follows another, on the same day or on a later one, with the store
\* holding the entry of the call before
CallRunwayProjection ==
    /\ \/ pc = "idle"
       \/ pc = "done" /\ op = "generate_runway_projection"
    /\ \E now \in Nows, late \in LateReadings, a \in RunwayProjectionInputs :
        /\ pc = "done" => now >= args.now + (IF args.late > 0 THEN 1 ELSE 0)
        /\ late <= IntMax0(Trunc(a.runway_months) + 1)
        /\ args' = [now |-> now, late |-> late,
                    cash_balance |-> a.cash_balance,
                    burn_rate |-> a.burn_rate,
                    runway_months |-> a.runway_months]
        /\ result' = RunwayProjectionCached(cache, Clock(now, late), args')
        /\ cache' = Store(cache, "generate_runway_projection",
                          CacheKey(args'), result')
    /\ op' = "generate_runway_projection"
    /\ pc' = IF pc = "idle" THEN "done" ELSE "next"
    /\ UNCHANGED earlier
    /\ UNCHANGED <<dbvars, ingestvars>>

CallRunway ==
    /\ pc = "idle"
    /\ \E cash \in RunwayCash, burn \in RunwayBurns :
        /\ args' = [cash_balance |-> cash, monthly_burn |-> burn]
        /\ result' = calculate_runway(cash, burn)
    /\ op' = "calculate_runway"
    /\ pc' = "done"
    /\ UNCHANGED <<cache, earlier>>
    /\ UNCHANGED <<dbvars, ingestvars>>

CallBurnRate ==
    /\ pc = "idle"
    /\ \E rev \in BurnRevenues, exp \in BurnExpenses :
        /\ args' = [revenues |-> rev, expenses |-> exp]
        /\ result' = calculate_burn_rate(rev, exp)
    /\ op' = "calculate_burn_rate"
    /\ pc' = "done"
    /\ UNCHANGED <<cache, earlier>>
    /\ UNCHANGED <<dbvars, ingestvars>>

CallMomGrowth ==
    /\ pc = "idle"
    /\ \E cur \in MomCurrents, prev \in MomPreviouses :
        /\ args' = [current |-> cur, previous |-> prev]
        /\ result' = calculate_mom_growth(cur, prev)
    /\ op' = "calculate_mom_growth"
    /\ pc' = "done"
    /\ UNCHANGED <<cache, earlier>>
    /\ UNCHANGED <<dbvars, ingestvars>>

CallLtvCacRatio ==
    /\ pc = "idle"
    /\ \E ltv \in Ltvs, cac \in Cacs :
        /\ args' = [ltv |-> ltv, cac |-> cac]
        /\ result' = calculate_ltv_cac_ratio(ltv, cac)
    /\ op' = "calculate_ltv_cac_ratio"
    /\ pc' = "done"
    /\ UNCHANGED <<cache, earlier>>
    /\ UNCHANGED <<dbvars, ingestvars>>

CallLifetimeFromChurn ==
    /\ pc = "idle"
    /\ \E churn \in LifetimeChurns :
        /\ args' = [churn_rate |-> churn]
        /\ result' = calculate_lifetime_from_churn(churn)
    /\ op' = "calculate_lifetime_from_churn"
    /\ pc' = "done"
    /\ UNCHANGED <<cache, earlier>>
    /\ UNCHANGED <<dbvars, ingestvars>>

\* the widgets of one evaluation of the page
Widgets(cash, fin, prev, b2b_total, b2b_new, b2c_total, b2c_new, rm, bm, cm, show, months, late, pow) ==
    [now |-> 0, late |-> late, pow |-> pow,
     cash_balance |-> cash, monthly_revenue |-> fin[1],
     previous_month_revenue |-> prev,
     monthly_expenses |-> fin[2],
     b2b_total |-> b2b_total, b2b_new |-> b2b_new,
     b2b_cac |-> 500, b2b_churn_rate |-> 2,
     b2c_total |-> b2c_total, b2c_new |-> b2c_new,
     b2c_cac |-> 50, b2c_churn_rate |-> 5,
     revenue_growth_model |-> rm.model,
     revenue_linear_coefficient |-> rm.linear,
     revenue_exponential_base |-> rm.exponential,
     b2b_growth_model |-> bm.model,
     b2b_linear_growth |-> bm.linear,
     b2b_exponential_growth |-> bm.exponential,
     b2c_growth_model |-> cm.model,
     b2c_linear_growth |-> cm.linear,
     b2c_exponential_growth |-> cm.exponential,
     show_scenarios |-> show, projection_months |-> months]

\* the customer widgets of a page, the others at their lowest value
Customers(b2b_total, b2b_new, b2c_total, b2c_new, bm, cm, months, pow) ==
    Widgets(0, <<0, 0>>, 0, b2b_total, b2b_new, b2c_total, b2c_new,
            [model |-> FIXED, linear |-> 0, exponential |-> 0],
            bm, cm, FALSE, months, 0, pow)

\* one evaluation of the page; the customer flows depend on the customer
\* widgets only and are computed once for the pages that share them
main ==
    /\ pc = "idle"
    /\ \E bm \in WidgetB2BModels, cm \in WidgetB2CModels,
          months \in ProjectionMonths :
      \E pow \in SUBSET HardPowers(
                     ExponentialGrowthsOf(bm.model, bm.exponential)
                     \cup ExponentialGrowthsOf(cm.model, cm.exponential),
                     0..months) :
      \E b2b_total \in WidgetB2BTotals, b2b_new \in WidgetB2BNews,
         b2c_total \in WidgetB2CTotals :
       \E b2c_new \in WidgetB2CNews(b2c_total) :
       \E b2b_flow \in {B2BFlow(Customers(b2b_total, b2b_new, b2c_total,
                                           b2c_new, bm, cm, months, pow))},
          b2c_flow \in {B2CFlow(Customers(b2b_total, b2b_new, b2c_total,
                                           b2c_new, bm, cm, months, pow))} :
        \E cash \in WidgetCash, fin \in WidgetFinances,
           prev \in WidgetPreviousRevenues,
           rm \in WidgetRevenueModels, show \in BOOLEAN,
           late \in WidgetLateReadings :
          LET w == Widgets(cash, fin, prev, b2b_total, b2b_new,
                           b2c_total, b2c_new, rm, bm, cm, show, months,
                           late, pow)
          IN  /\ late <= MainReadings(w)
              /\ args' = w
              /\ result' = PageOf(w, b2b_flow, b2c_flow)
              /\ cache' = PageCache(w)
    /\ op' = "main"
    /\ pc' = "done"
    /\ UNCHANGED earlier
    /\ UNCHANGED <<dbvars, ingestvars>>

\* the functions a caller projects with
Projectors ==
    {"calculate_revenue_projection", "calculate_customer_flow",
     "calculate_customer_projection", "generate_scenario_projections"}

\* the projector op run on the arguments a, on the day now, with the store c
Projector(o, a, now, c) ==
    CASE o = "calculate_revenue_projection" ->
             calculate_revenue_projection(
                 FromInt(a.initial_revenue), a.months, a.model,
                 FromInt(a.linear_coefficient), FromInt(a.exponential_base))
      [] o = "calculate_customer_flow" ->
             calculate_customer_flow(
                 a.initial_customers, a.new_customers, a.churn_rate, a.months,
                 a.growth_model, a.linear_growth, a.exponential_growth,
                 a.pow)
      [] o = "calculate_customer_projection" ->
             calculate_customer_projection(
                 a.b2b_metrics, a.b2c_metrics, a.months, a.model,
                 a.linear_growth, a.exponential_growth, a.pow)
      [] o = "generate_scenario_projections" ->
             ScenarioProjectionsCached(c, now, a)

\* the store is cleared while the caller holds what it was returned
\* (st.cache_data.clear(), or the server is restarted): the entry is lost
Restart ==
    /\ pc = "done"
    /\ cache /= <<>>
    /\ cache' = <<>>
    /\ UNCHANGED <<pc, op, args, result, earlier>>
    /\ UNCHANGED <<dbvars, ingestvars>>

\* the caller calls the projector a second time with the same arguments, on
\* the same day or on a later one
CallAgain ==
    /\ pc = "done"
    /\ op \in Projectors
    /\ IF "now" \in DOMAIN args
       THEN \E now \in Nows, late \in LateReadings :
                /\ now >= args.now + (IF args.late > 0 THEN 1 ELSE 0)
                /\ late <= Len(args.scenarios) * (args.months + 1)
                /\ args' = [args EXCEPT !.now = now, !.late = late]
                /\ result' = Projector(op, args, Clock(now, late), cache)
       ELSE \* the function reads no clock: the day makes no difference
            /\ args' = args
            /\ result' = Projector(op, args, Clock(0, 0), cache)
    /\ cache' = IF op = "generate_scenario_projections"
                THEN Store(cache, op, CacheKey(args), result')
                ELSE cache
    /\ earlier' = result
    /\ pc' = "again"
    /\ UNCHANGED op
    /\ UNCHANGED <<dbvars, ingestvars>>

\* the process ends and another begins: nothing in memory outlives it, the
\* store of st.cache_data included; the files of the databases stay
Exit ==
    /\ pc \in {"done", "again", "next", "raised"}
    /\ pc' = "idle"
    /\ op' = "none"
    /\ args' = NoCall
    /\ result' = <<>>
    /\ cache' = <<>>
    /\ earlier' = <<>>
    /\ UNCHANGED <<dbvars, ingestvars>>

Next ==
    \/ CallRunway
    \/ CallBurnRate
    \/ CallMomGrowth
    \/ CallLtvCacRatio
    \/ CallLifetimeFromChurn
    \/ CallRunwayProjection
    \/ CallRevenueProjection
    \/ main
    \/ CallCustomerProjection
    \/ CallScenarioProjections
    \/ CallCustomerFlow
    \/ Restart
    \/ CallAgain
    \/ Exit

Spec == Init /\ [][Next]_vars

----------------------------------------------------------------------------
(* The state machine of MetricsDB *)

save_metrics ==
    /\ pc = "idle"
    /\ Len(metrics_table) < MaxRows
    /\ \E kw \in Snapshots :
        /\ metrics_table' =
               Append(metrics_table, InsertedRow(metrics_table, today, kw))
        /\ saved' = Append(saved, kw)
        /\ args' = kw
    /\ result' = NoneResult
    /\ op' = "save_metrics"
    /\ pc' = "done"
    /\ UNCHANGED <<cache, earlier, today, ingestvars>>

get_latest_metrics ==
    /\ pc = "idle"
    /\ IF metrics_table = <<>>
       THEN result' = NoneResult
       ELSE \E i \in FirstByDateDesc(metrics_table) :
                result' = RowDict(metrics_table[i])
    /\ args' = NoCall
    /\ op' = "get_latest_metrics"
    /\ pc' = "done"
    /\ UNCHANGED <<cache, earlier, metrics_table, today, saved, ingestvars>>

\* midnight: the next calendar day begins
NextDay ==
    /\ pc = "idle"
    /\ today < MaxDay
    /\ today' = today + 1
    /\ UNCHANGED <<appvars, metrics_table, saved, ingestvars>>

NextDB ==
    \/ save_metrics
    \/ get_latest_metrics
    \/ NextDay
    \/ Exit

SpecDB == Init /\ [][NextDB]_vars

----------------------------------------------------------------------------
(* The state machine of setup_investor_database *)

\* one call, from connect to return.  On an exception conn.close() leaves
\* the rows of the open transaction uncommitted; the cursor of the call is
\* still referenced (the dict of locals() holds the exception, its
\* traceback the frame), so SQLite keeps the closed connection and its
\* write lock until the garbage collector frees the cursor.
setup_investor_database ==
    /\ pc = "idle"
    /\ \E csv \in CsvFiles :
        LET outcome == Ingest(investors, csv, locked)
        IN  /\ args' = csv
            /\ IF outcome.error = "none"
               THEN /\ investors' = outcome.table
                    /\ conn' = "open"
                    /\ result' = Connection
                    /\ UNCHANGED locked
               ELSE /\ conn' = "closed"
                    /\ result' = NoneResult
                    /\ locked' = (locked \/ outcome.error \in InTransaction)
                    /\ UNCHANGED investors
    /\ op' = "setup_investor_database"
    /\ pc' = "done"
    /\ UNCHANGED <<cache, earlier, dbvars>>

\* if conn: ... conn.close()
CloseReturned ==
    /\ pc = "done"
    /\ op = "setup_investor_database"
    /\ conn' = IF result = Connection THEN "closed" ELSE conn
    /\ pc' = "idle"
    /\ op' = "none"
    /\ args' = NoCall
    /\ result' = <<>>
    /\ UNCHANGED <<cache, earlier, dbvars, investors, locked>>

\* the garbage collector frees the frame of a failed call: the transaction
\* of its connection is rolled back and the lock released
Collect ==
    /\ pc = "idle"
    /\ locked
    /\ locked' = FALSE
    /\ UNCHANGED <<appvars, dbvars, investors, conn>>

NextIngest ==
    \/ setup_investor_database
    \/ CloseReturned
    \/ Collect

SpecIngest == Init /\ [][NextIngest]_vars

----------------------------------------------------------------------------
(* Properties *)

RevenueDone == pc = "done" /\ op = "calculate_revenue_projection"
FlowDone == pc = "done" /\ op = "calculate_customer_flow"
CustomersDone == pc = "done" /\ op = "calculate_customer_projection"
ScenariosDone == pc = "done" /\ op = "generate_scenario_projections"

RunwayDone == pc = "done" /\ op = "calculate_runway"
BurnDone == pc = "done" /\ op = "calculate_burn_rate"
MomDone == pc = "done" /\ op = "calculate_mom_growth"
LtvCacDone == pc = "done" /\ op = "calculate_ltv_cac_ratio"
LifetimeDone == pc = "done" /\ op = "calculate_lifetime_from_churn"

MainDone == pc = "done" /\ op = "main"

\* the running total a period of the customer flow starts from
PrevTotal(m) ==
    IF m = 0 THEN args.initial_customers ELSE result.total_customers[m]

\* C1: in calculate_customer_flow the churned count of every period m is
\* trunc(prev_total * churn_pct / 100), taken from the total carried over from
\* the previous period, and total[m] = max(0, prev_total + new[m] - churned[m]),
\* with prev_total = initial_customers for m = 0 and total[m-1] otherwise.
C1_ChurnFromPreUpdateTotal ==
    FlowDone =>
        \A m \in 0..args.months :
            /\ result.churned_per_month[m + 1] =
                   Trunc(Rat(PrevTotal(m) * args.churn_rate, 100))
            /\ result.total_customers[m + 1] =
                   IntMax0(PrevTotal(m) + result.new_per_month[m + 1]
                           - result.churned_per_month[m + 1])

\* C2: every element of the total sequence of calculate_customer_flow is >= 0,
\* for any inputs (negative customers, churn outside [0,100], negative growth).
C2_TotalNeverNegative ==
    FlowDone =>
        \A i \in 1..Len(result.total_customers) :
            result.total_customers[i] >= 0

\* a period whose unclamped total would be negative
C2_Witness ==
    /\ FlowDone
    /\ \E m \in 0..args.months :
        /\ PrevTotal(m) + result.new_per_month[m + 1]
               - result.churned_per_month[m + 1] < 0
        /\ result.total_customers[m + 1] = 0

\* the expenses of scenario i in month m: monthly_expenses * expense_multiplier
\* * 1.02 ** m
ExpectedExpenses(i, m) ==
    RMul(RMul(FromInt(args.monthly_expenses),
              args.scenarios[i].expense_multiplier),
         RPow(Rat(51, 50), m))

\* C3: each scenario's cash sequence records the cash before the period's burn
\* is subtracted: cash[0] is the input cash_balance and cash[m+1] = cash[m] -
\* (adjusted_expenses * 1.02**m - revenue[m]) for m in 0..months-1, revenue
\* being the scenario's revenue projection.
C3_CashRecordedBeforeBurn ==
    ScenariosDone =>
        \A i \in 1..Len(result) :
            LET cash == result[i].projected_cash
                revenue == ScenarioRevenues(
                               args.scenarios[i],
                               FromInt(args.monthly_revenue), args.months,
                               args.revenue_model,
                               FromInt(args.linear_coefficient),
                               FromInt(args.exponential_base))
            IN  /\ cash[1] = FromInt(args.cash_balance)
                /\ \A m \in 0..(args.months - 1) :
                       cash[m + 2] =
                           RSub(cash[m + 1],
                                RSub(ExpectedExpenses(i, m), revenue[m + 1]))

\* a scenario whose cash changes in both of the first two periods
C3_Witness ==
    /\ ScenariosDone
    /\ Len(result) >= 1
    /\ args.months >= 2
    /\ args.cash_balance > 0
    /\ result[1].projected_cash[1] = FromInt(args.cash_balance)
    /\ result[1].projected_cash[2] # result[1].projected_cash[1]
    /\ result[1].projected_cash[3] # result[1].projected_cash[2]

\* C4: generate_scenario_projections returns one result per input scenario, in
\* the order of the input list, the i-th result carrying the i-th scenario's
\* name and color unmodified.
C4_OneResultPerScenarioInOrder ==
    ScenariosDone =>
        /\ Len(result) = Len(args.scenarios)
        /\ \A i \in 1..Len(args.scenarios) :
            /\ result[i].name = args.scenarios[i].name
            /\ result[i].color = args.scenarios[i].color

\* two different scenarios, the worst case first
C4_Witness ==
    /\ ScenariosDone
    /\ Len(args.scenarios) = 2
    /\ args.scenarios[1].name = "Worst Case"
    /\ args.scenarios[2].name = "Best Case"
    /\ result[1].name = "Worst Case" /\ result[1].color = "red"
    /\ result[2].name = "Best Case" /\ result[2].color = "green"

\* the revenue of month m that claim C5 states for scenario i: the projection
\* from monthly_revenue * revenue_multiplier with both growth coefficients
\* multiplied by revenue_multiplier
ExpectedScenarioRevenue(i, m) ==
    LET rm == args.scenarios[i].revenue_multiplier
        R == RMul(FromInt(args.monthly_revenue), rm)
        lc == RMul(FromInt(args.linear_coefficient), rm)
        eb == RMul(FromInt(args.exponential_base), rm)
        raw == IF args.revenue_model = FIXED
               THEN R
               ELSE IF args.revenue_model = LINEAR
                    THEN RAdd(R, RMul(RMul(R, RDivInt(lc, 100)), FromInt(m)))
                    ELSE RMul(R, RPow(RAdd(FromInt(1), RDivInt(eb, 100)), m))
    IN  Max0(raw)

\* C5: the revenue that enters a scenario's cash simulation is the revenue
\* projection from monthly_revenue * revenue_multiplier with the linear and
\* the exponential coefficient both multiplied by revenue_multiplier, and the
\* expenses start from monthly_expenses * expense_multiplier: the burn of
\* every recorded period is those expenses minus that revenue.
C5_ScenarioScalesRevenueAndGrowth ==
    ScenariosDone =>
        \A i \in 1..Len(result) :
            \A m \in 0..(args.months - 1) :
                RSub(result[i].projected_cash[m + 1],
                     result[i].projected_cash[m + 2]) =
                    RSub(ExpectedExpenses(i, m), ExpectedScenarioRevenue(i, m))

\* a scenario with a multiplier other than 1 whose second burn depends on the
\* scaled growth coefficient
C5_Witness ==
    /\ ScenariosDone
    /\ Len(result) >= 1
    /\ args.months >= 2
    /\ args.scenarios[1].revenue_multiplier = Rat(3, 2)
    /\ args.revenue_model = EXPONENTIAL
    /\ args.exponential_base = 50
    /\ args.monthly_revenue = 10000
    /\ args.monthly_expenses = 20000
    /\ RSub(result[1].projected_cash[2], result[1].projected_cash[3]) =
           RSub(FromInt(10200), FromInt(26250))

\* C6: under the Linear model, for non-negative R and p, the value at every
\* period m in 0..months is R + R*(p/100)*m: a fixed increase per month.
C6_LinearFixedIncrease ==
    (/\ RevenueDone
     /\ args.model = LINEAR
     /\ args.initial_revenue >= 0
     /\ args.linear_coefficient >= 0) =>
        \A m \in 0..args.months :
            result[m + 1] =
                Rat(100 * args.initial_revenue
                    + args.initial_revenue * args.linear_coefficient * m, 100)

\* the example of the specification: R = 10000, 3 months, 10 percent
C6_Witness ==
    /\ RevenueDone
    /\ args.model = LINEAR
    /\ args.initial_revenue = 10000
    /\ args.months = 3
    /\ args.linear_coefficient = 10
    /\ result = <<FromInt(10000), FromInt(11000), FromInt(12000),
                  FromInt(13000)>>

\* R * (1 + p/100) ** m
ExponentialValue(R, p, m) == RMul(FromInt(R), RPow(Rat(100 + p, 100), m))

\* C7 as stated: under the Exponential model the value at every period m is
\* R*(1+p/100)**m, and for p > 0 the sequence increases with m.
C7_Original ==
    (RevenueDone /\ args.model = EXPONENTIAL) =>
        /\ \A m \in 0..args.months :
               result[m + 1] = ExponentialValue(args.initial_revenue,
                                                args.exponential_base, m)
        /\ args.exponential_base > 0 =>
               \A m \in 1..args.months : RLeq(result[m], result[m + 1])

\* C7 as amended: under the Exponential model the value at every period m is
\* max(0, R*(1+p/100)**m), which is R*(1+p/100)**m when R >= 0 and p >= -100;
\* for p > 0 the sequence never decreases with m, and strictly increases when
\* R > 0.
C7_ExponentialClamped ==
    (RevenueDone /\ args.model = EXPONENTIAL) =>
        /\ \A m \in 0..args.months :
            /\ result[m + 1] =
                   Max0(ExponentialValue(args.initial_revenue,
                                         args.exponential_base, m))
            /\ (args.initial_revenue >= 0 /\ args.exponential_base >= -100) =>
                   result[m + 1] = ExponentialValue(args.initial_revenue,
                                                    args.exponential_base, m)
        /\ args.exponential_base > 0 =>
               \A m \in 1..args.months :
                   /\ RLeq(result[m], result[m + 1])
                   /\ args.initial_revenue > 0 =>
                          RLess(result[m], result[m + 1])

\* a growing exponential projection over the whole horizon
C7_Witness ==
    /\ RevenueDone
    /\ args.model = EXPONENTIAL
    /\ args.initial_revenue = 10000
    /\ args.exponential_base = 50
    /\ args.months = 3
    /\ result = <<FromInt(10000), FromInt(15000), FromInt(22500),
                  FromInt(33750)>>

C9_RevenueNeverNegative ==
    RevenueDone =>
        \A i \in 1..Len(result) : RLeq(FromInt(0), result[i])

\* a month whose computed revenue is negative and is returned as 0
C9_Witness ==
    /\ RevenueDone
    /\ \E m \in 0..args.months :
        /\ RLess(ModelRevenue(FromInt(args.initial_revenue), m, args.model,
                              FromInt(args.linear_coefficient),
                              FromInt(args.exponential_base)),
                 FromInt(0))
        /\ result[m + 1] = FromInt(0)

\* C10: every trajectory has exactly months + 1 points: the revenue
\* projection, the three customer-flow sequences, each list of the
\* customer-total projection, each scenario's period and cash sequences.
C10_MonthsPlusOnePoints ==
    /\ RevenueDone => Len(result) = args.months + 1
    /\ FlowDone =>
        /\ Len(result.new_per_month) = args.months + 1
        /\ Len(result.churned_per_month) = args.months + 1
        /\ Len(result.total_customers) = args.months + 1
    /\ CustomersDone =>
        \A t \in DOMAIN result : Len(result[t]) = args.months + 1
    /\ ScenariosDone =>
        \A i \in 1..Len(result) :
            /\ Len(result[i].dates) = args.months + 1
            /\ Len(result[i].projected_cash) = args.months + 1

\* months = 0: a customer flow of three single-point sequences
C10_Witness ==
    /\ FlowDone
    /\ args.months = 0
    /\ Len(result.new_per_month) = 1
    /\ Len(result.churned_per_month) = 1
    /\ Len(result.total_customers) = 1

\* C11 as stated: in every trajectory (revenue projection, customer-flow total,
\* customer-total projection, scenario cash) the value at period 0 is the
\* current state given as input: the initial revenue, the initial customer
\* total, the starting cash.
C11_Original ==
    /\ RevenueDone => result[1] = FromInt(args.initial_revenue)
    /\ FlowDone => result.total_customers[1] = args.initial_customers
    /\ CustomersDone =>
        /\ result[args.b2c_metrics.type][1] = args.b2c_metrics.total
        /\ result[args.b2b_metrics.type][1] = args.b2b_metrics.total
    /\ ScenariosDone =>
        \A i \in 1..Len(result) :
            result[i].projected_cash[1] = FromInt(args.cash_balance)

\* C11 as amended: at period 0 the revenue projection holds max(0, initial
\* revenue) (the initial revenue when it is >= 0), every list of the
\* customer-total projection holds the initial total of the segment it was
\* computed from, and every scenario's cash holds the starting cash; the
\* customer-flow total at period 0 is not the initial total but the total
\* after the first period's flow, max(0, initial + new[0] - churned[0]).
C11_PeriodZero ==
    /\ RevenueDone =>
        /\ result[1] = Max0(FromInt(args.initial_revenue))
        /\ args.initial_revenue >= 0 =>
               result[1] = FromInt(args.initial_revenue)
    /\ FlowDone =>
        result.total_customers[1] =
            IntMax0(args.initial_customers + result.new_per_month[1]
                    - result.churned_per_month[1])
    /\ CustomersDone =>
        /\ result[args.b2c_metrics.type][1] = args.b2c_metrics.total
        /\ args.b2b_metrics.type # args.b2c_metrics.type =>
               result[args.b2b_metrics.type][1] = args.b2b_metrics.total
    /\ ScenariosDone =>
        \A i \in 1..Len(result) :
            result[i].projected_cash[1] = FromInt(args.cash_balance)

\* a customer flow whose total at period 0 already differs from the initial
\* total: 100 customers, 20 new, 25 percent churn give 95
C11_Witness ==
    /\ FlowDone
    /\ args.initial_customers = 100
    /\ args.new_customers = 20
    /\ args.churn_rate = 25
    /\ result.total_customers[1] = 95

\* C12: the saturation rules hold and no zero denominator raises:
\* calculate_runway returns cash/burn when burn > 0 and 0 otherwise, so it
\* is never negative for cash >= 0; calculate_mom_growth returns
\* (current - previous)/previous*100 when previous /= 0 and 0 otherwise;
\* calculate_ltv_cac_ratio returns ltv/cac when cac /= 0 and 0 otherwise.
C12_SaturationRules ==
    /\ (RunwayDone /\ IsNumeric(args.cash_balance)
                   /\ IsNumeric(args.monthly_burn)) =>
        /\ IsNumeric(result)
        /\ RLess(FromInt(0), args.monthly_burn) =>
               RMul(result, args.monthly_burn) = args.cash_balance
        /\ RLeq(args.monthly_burn, FromInt(0)) => result = FromInt(0)
        /\ RLeq(FromInt(0), args.cash_balance) => RLeq(FromInt(0), result)
    /\ MomDone =>
        /\ IsNumeric(result)
        /\ args.previous /= FromInt(0) =>
               RMul(result, args.previous) =
                   RMul(RSub(args.current, args.previous), FromInt(100))
        /\ args.previous = FromInt(0) => result = FromInt(0)
    /\ LtvCacDone =>
        /\ IsNumeric(result)
        /\ args.cac /= FromInt(0) => RMul(result, args.cac) = args.ltv
        /\ args.cac = FromInt(0) => result = FromInt(0)

\* a growth rate asked for with a previous revenue of 0
C12_Witness ==
    /\ MomDone
    /\ args.current = FromInt(10000)
    /\ args.previous = FromInt(0)
    /\ result = FromInt(0)

\* C13: calculate_lifetime_from_churn returns +infinity for churn 0, never a
\* finite value, 1 for churn 100, and 100/churn_pct for every churn_pct > 0.
C13_LifetimeFromChurn ==
    LifetimeDone =>
        /\ args.churn_rate = FromInt(0) => result = Infinity
        /\ args.churn_rate = FromInt(100) => result = FromInt(1)
        /\ RLess(FromInt(0), args.churn_rate) =>
               /\ IsNumeric(result)
               /\ RMul(result, args.churn_rate) = FromInt(100)

\* the lifetime at zero churn
C13_Witness ==
    /\ LifetimeDone
    /\ args.churn_rate = FromInt(0)
    /\ result = Infinity

\* C14: calculate_burn_rate returns expenses - revenues for numeric
\* arguments, unclamped, so negative when revenue exceeds expenses, and
\* raises, returning no value, when either argument is non-numeric.
C14_BurnRateUnclamped ==
    BurnDone =>
        IF IsNumeric(args.revenues) /\ IsNumeric(args.expenses)
        THEN /\ IsNumeric(result)
             /\ RAdd(result, args.revenues) = args.expenses
             /\ RLess(args.expenses, args.revenues) =>
                    RLess(result, FromInt(0))
        ELSE result = ValueError

\* revenue above expenses: a negative burn rate
C14_Witness ==
    /\ BurnDone
    /\ args.revenues = FromInt(20000)
    /\ args.expenses = FromInt(8000)
    /\ result = FromInt(-12000)

\* the page of main's example: segments (20, cac 500, churn 2) and
\* (80, cac 50, churn 5), revenue 10000
C15_ExamplePage ==
    /\ MainDone
    /\ args.b2b_total = 20 /\ args.b2b_cac = 500 /\ args.b2b_churn_rate = 2
    /\ args.b2c_total = 80 /\ args.b2c_cac = 50 /\ args.b2c_churn_rate = 5
    /\ args.monthly_revenue = 10000
    /\ result.error = "none"

\* C15: the blended metrics main computes are weighted sums over the two
\* segments that are 0 when the combined total is 0: weighted_cac =
\* (cac_1*total_1 + cac_2*total_2)/total, weighted_churn likewise, arpu =
\* revenue/total, conversion_rate = (new_1 + new_2)/total*100; the example
\* page has weighted_cac 140, weighted_churn 4.4 and arpu 100.
C15_BlendedMetrics ==
    /\ C15_ExamplePage =>
           /\ result.metrics.weighted_cac = FromInt(140)
           /\ result.metrics.weighted_churn = Rat(44, 10)
           /\ result.metrics.arpu = FromInt(100)
    /\ (MainDone /\ result.error = "none") =>
        LET m == result.metrics
            total == args.b2b_total + args.b2c_total
        IN  IF total > 0
            THEN /\ RMul(m.weighted_cac, FromInt(total)) =
                        FromInt(args.b2b_cac * args.b2b_total
                                + args.b2c_cac * args.b2c_total)
                 /\ RMul(m.weighted_churn, FromInt(total)) =
                        FromInt(args.b2b_churn_rate * args.b2b_total
                                + args.b2c_churn_rate * args.b2c_total)
                 /\ RMul(m.arpu, FromInt(total)) =
                        FromInt(args.monthly_revenue)
                 /\ RMul(m.conversion_rate, FromInt(total)) =
                        FromInt((args.b2b_new + args.b2c_new) * 100)
            ELSE /\ m.weighted_cac = FromInt(0)
                 /\ m.weighted_churn = FromInt(0)
                 /\ m.arpu = FromInt(0)
                 /\ m.conversion_rate = FromInt(0)

\* a page with no customer in either segment and a revenue of 10000: the
\* four metrics are 0
C15_Witness ==
    /\ MainDone
    /\ args.b2b_total = 0 /\ args.b2c_total = 0
    /\ args.b2b_new = 0 /\ args.b2c_new = 0
    /\ args.monthly_revenue = 10000
    /\ result.error = "none"
    /\ result.metrics.weighted_cac = FromInt(0)
    /\ result.metrics.weighted_churn = FromInt(0)
    /\ result.metrics.arpu = FromInt(0)
    /\ result.metrics.conversion_rate = FromInt(0)

\* C16: a segment with more new customers than total customers is reported
\* as an invalid segment state before any projection: the evaluation
\* computes no flow, no customer-total and no scenario trajectory.
C16_InvalidSegmentStops ==
    (MainDone /\ (\/ args.b2b_new > args.b2b_total
                  \/ args.b2c_new > args.b2c_total)) =>
        /\ result.error = "Invalid customer metrics"
        /\ DOMAIN result = {"error"}

\* 25 new B2B customers of 20, the B2C segment being valid
C16_Witness ==
    /\ MainDone
    /\ args.b2b_new = 25 /\ args.b2b_total = 20
    /\ args.b2c_new = 15 /\ args.b2c_total = 80
    /\ args.show_scenarios
    /\ result = [error |-> "Invalid customer metrics"]

\* a projector was called with a negative cash, revenue, expenses or
\* customer count
NegativeRevenueCall == RevenueDone /\ args.initial_revenue < 0
NegativeFlowCall ==
    FlowDone /\ (args.initial_customers < 0 \/ args.new_customers < 0)
NegativeCustomersCall ==
    CustomersDone /\ (args.b2b_metrics.total < 0 \/ args.b2c_metrics.total < 0)
NegativeScenariosCall ==
    /\ ScenariosDone
    /\ \/ args.cash_balance < 0
       \/ args.monthly_revenue < 0
       \/ args.monthly_expenses < 0

\* C17 as stated: every projector called with a negative cash, revenue,
\* expenses or customer count fails before computing any trajectory point
\* and returns no partial result: the call leaves no point.
C17_Original ==
    /\ NegativeRevenueCall => result = <<>>
    /\ NegativeFlowCall =>
        /\ result.new_per_month = <<>>
        /\ result.churned_per_month = <<>>
        /\ result.total_customers = <<>>
    /\ NegativeCustomersCall => \A t \in DOMAIN result : result[t] = <<>>
    /\ NegativeScenariosCall =>
        \A i \in 1..Len(result) : result[i].projected_cash = <<>>

\* C18: a growth-model value that is none of Fixed, Linear, Exponential
\* reaching the revenue projection, the customer flow or the customer-total
\* projection is reported as an error and produces no trajectory.
C18_UnknownModelRejected ==
    /\ (RevenueDone /\ args.model \notin GrowthModel) => result = <<>>
    /\ (FlowDone /\ args.growth_model \notin GrowthModel) =>
        /\ result.new_per_month = <<>>
        /\ result.churned_per_month = <<>>
        /\ result.total_customers = <<>>
    /\ (CustomersDone /\ args.model \notin GrowthModel) =>
        \A t \in DOMAIN result : result[t] = <<>>

\* the value the total of a segment has after m periods of exponential
\* growth: trunc(initial_total * (1 + rate) ** m)
ExponentialTotal(metrics, m) ==
    Trunc(RMul(FromInt(metrics.total),
               RPow(RAdd(FromInt(1),
                         RDivInt(FromInt(args.exponential_growth), 100)),
                    m)))

\* C20: under the Exponential model, calculate_customer_projection reports
\* for period m of each segment trunc(initial_total * (1 + rate) ** m),
\* whatever the segment's new count and churn rate.
C20_ExponentialFromInitialTotal ==
    (CustomersDone /\ args.model = EXPONENTIAL) =>
        \A m \in 0..args.months :
            /\ result[args.b2c_metrics.type][m + 1] =
                   ExponentialTotal(args.b2c_metrics, m)
            /\ args.b2b_metrics.type /= args.b2c_metrics.type =>
                   result[args.b2b_metrics.type][m + 1] =
                       ExponentialTotal(args.b2b_metrics, m)

\* C19: a projector called twice with the same arguments returns the same
\* output both times: the output depends on the arguments only, not on an
\* earlier call, on shared state or on the day of the call.
C19_SameArgumentsSameOutput == pc = "again" => result = earlier

\* the new customers the customer-total projection adds in the period that
\* starts at month m: metrics.new, plus linear_growth * m under Linear
ProjectionNew(metrics, m) ==
    IF args.model = FIXED
    THEN metrics.new
    ELSE metrics.new + args.linear_growth * m

\* the list of a segment follows the update rule of the customer flow
FollowsFlowRule(metrics) ==
    \A m \in 0..(args.months - 1) :
        LET total == result[metrics.type][m + 1]
        IN  result[metrics.type][m + 2] =
                IntMax0(total + ProjectionNew(metrics, m)
                        - ChurnedThisMonth(total, metrics.churn_rate))

\* C21: under the Fixed and Linear models calculate_customer_projection
\* updates the running total of each segment by the rule of the customer
\* flow: total = max(0, total + new_this_period - churned_this_period), the
\* churn taken from the total before the update at the segment's churn rate.
C21_TotalOnlyFollowsFlowRule ==
    (CustomersDone /\ args.model \in {FIXED, LINEAR}) =>
        /\ FollowsFlowRule(args.b2c_metrics)
        /\ args.b2b_metrics.type /= args.b2c_metrics.type =>
               FollowsFlowRule(args.b2b_metrics)

\* what the scenario projection returns for the i-th scenario when it is
\* the only scenario of the list
AloneProjection(i) ==
    generate_scenario_projections(
        Clock(args.now, 0), FromInt(args.cash_balance),
        FromInt(args.monthly_revenue),
        FromInt(args.monthly_expenses), args.months, <<args.scenarios[i]>>,
        args.revenue_model, FromInt(args.linear_coefficient),
        FromInt(args.exponential_base))[1]

\* C22: the cash trajectory of a scenario depends on its own multipliers and
\* on the shared inputs only: it is the trajectory the scenario gets when
\* it is alone in the list, whatever the other scenarios of the list and
\* wherever it stands in it, and it starts from the input cash.
C22_ScenariosIndependent ==
    ScenariosDone =>
        \A i \in 1..Len(args.scenarios) :
            /\ result[i].projected_cash = AloneProjection(i).projected_cash
            /\ result[i].projected_cash[1] = FromInt(args.cash_balance)

\* two scenarios over two months whose cash trajectories differ, the second
\* one starting from the input cash although the first has burnt some
C22_Witness ==
    /\ ScenariosDone
    /\ Len(args.scenarios) = 2
    /\ args.months = 2
    /\ args.cash_balance = 100000
    /\ result[1].projected_cash[3] /= FromInt(100000)
    /\ result[2].projected_cash /= result[1].projected_cash
    /\ result[2].projected_cash[1] = FromInt(100000)

GetLatestDone == pc = "done" /\ op = "get_latest_metrics"

\* equal as Python compares them: None with None, numbers by value
SameValue(x, y) ==
    IF x.t = "NoneType" \/ y.t = "NoneType" THEN x.t = y.t ELSE x.v = y.v

\* C23: after any sequence of save_metrics calls get_latest_metrics returns
\* the field values of the snapshot saved last, also when several were
\* saved on one calendar day, and None when none was ever saved.
C23_LatestIsLastSaved ==
    GetLatestDone =>
        IF saved = <<>>
        THEN result = NoneResult
        ELSE /\ "none" \notin DOMAIN result
             /\ \A i \in 1..Len(Fields) :
                    SameValue(result[Fields[i]],
                              KwGet(saved[Len(saved)], Fields[i]))

\* a step of setup_investor_database, from the call to the return
SetupReturns ==
    pc = "idle" /\ pc' = "done" /\ op' = "setup_investor_database"

\* the lines of a CSV file after its header line
DataRows(csv) == SubSeq(csv.lines, 2, Len(csv.lines))

\* a data row that has not the seven fields of the table
HasMalformedRow(csv) == \E i \in 1..Len(DataRows(csv)) : Len(DataRows(csv)[i]) /= 7

\* two data rows of the same firm_name
HasDuplicateFirm(csv) ==
    \E i, j \in 1..Len(DataRows(csv)) :
        /\ i < j
        /\ Len(DataRows(csv)[i]) > 0
        /\ Len(DataRows(csv)[j]) > 0
        /\ DataRows(csv)[i][1] = DataRows(csv)[j][1]

\* C24: setup_investor_database replaces the table investors in one atomic
\* step.  When it returns a connection the table holds exactly the data
\* rows of the CSV file, the rows of before removed, so that a second run
\* with the same file leaves the table as it is; with a missing file, a
\* malformed row or a duplicate firm_name, and on any other failure, it
\* returns None, the connection is closed and the committed rows of the
\* table are the rows of before.
C24_AtomicReplace ==
    [][ SetupReturns =>
          /\ (~args'.exists \/ HasMalformedRow(args') \/ HasDuplicateFirm(args'))
                 => result' = NoneResult
          /\ IF result' = Connection
             THEN /\ investors' = DataRows(args')
                  /\ conn' = "open"
             ELSE /\ result' = NoneResult
                  /\ conn' = "closed"
                  /\ investors' = investors
          /\ (args'.exists /\ investors = DataRows(args'))
                 => investors' = investors ]_vars

\* a file with two rows of one firm has been refused while the table held
\* two rows of another file: the rows are still there
C24_Witness ==
    /\ pc = "done"
    /\ op = "setup_investor_database"
    /\ HasDuplicateFirm(args)
    /\ ~HasMalformedRow(args)
    /\ result = NoneResult
    /\ conn = "closed"
    /\ Len(investors) = 2
    /\ investors /= DataRows(args)

====
